---- MODULE Spec2Model ----
(***************************************************************************)
(* Model of the QDF decoder of quadro-viewer (lib/qdfParser.ts).           *)
(*                                                                         *)
(* A JavaScript string is a sequence of one-character strings.  A          *)
(* JavaScript number is a record [nan, num, den]: NaN, or the rational     *)
(* num/den in lowest terms with den > 0.  A value that may be null or      *)
(* undefined is a sequence of length 0 or 1.                               *)
(***************************************************************************)
EXTENDS Integers, Sequences, FiniteSets, TLC

VARIABLES src, text, pc, parsed, shown, calls, io, scene, picked, glow, xr

vars == <<src, text, pc, parsed, shown, calls, io, scene, picked, glow, xr>>

----------------------------------------------------------------------------
(* JavaScript numbers *)

NaN == [nan |-> TRUE, num |-> 0, den |-> 1]

Abs(n) == IF n < 0 THEN 0 - n ELSE n

RECURSIVE Gcd(_, _)
Gcd(a, b) == IF b = 0 THEN a ELSE Gcd(b, a % b)

\* the number n / d for d >= 0; n / 0 is Infinity or -Infinity by the sign of
\* n, and 0 / 0 is NaN
MkNum(n, d) ==
    LET g == Gcd(Abs(n), d)
    IN  IF n = 0 THEN (IF d = 0 THEN NaN ELSE [nan |-> FALSE, num |-> 0, den |-> 1])
        ELSE [nan |-> FALSE, num |-> n \div g, den |-> d \div g]

\* Number.POSITIVE_INFINITY
Infinity == [nan |-> FALSE, num |-> 1, den |-> 0]

Num(n) == MkNum(n, 1)

IsNaN(v) == v.nan

IsInteger(v) == ~v.nan /\ v.den = 1

Neg(v) == IF v.nan THEN NaN ELSE MkNum(0 - v.num, v.den)

Half(v) == IF v.nan THEN NaN ELSE MkNum(v.num, v.den * 2)

Add(u, v) ==
    IF u.nan \/ v.nan THEN NaN
    ELSE IF u.den = 0 /\ v.den = 0 THEN (IF u.num = v.num THEN u ELSE NaN)
    ELSE MkNum(u.num * v.den + v.num * u.den, u.den * v.den)

Sub(u, v) == Add(u, Neg(v))

Mul(u, v) == IF u.nan \/ v.nan THEN NaN ELSE MkNum(u.num * v.num, u.den * v.den)

\* u / v for v > 0
Div(u, v) == IF u.nan \/ v.nan THEN NaN ELSE MkNum(u.num * v.den, u.den * v.num)

\* the root of a perfect square
ISqrt(n) == CHOOSE r \in 0..n : r * r = n

\* Math.sqrt(v) for v >= 0.  The orientation fields of this model are
\* squares of rationals, whose roots are exact.
Sqrt(v) == IF v.nan THEN NaN ELSE MkNum(ISqrt(v.num), ISqrt(v.den))

----------------------------------------------------------------------------
(* JavaScript strings *)

Digits == {"0", "1", "2", "3", "4", "5", "6", "7", "8", "9"}

DigitVal(ch) ==
    CASE ch = "0" -> 0 [] ch = "1" -> 1 [] ch = "2" -> 2 [] ch = "3" -> 3
      [] ch = "4" -> 4 [] ch = "5" -> 5 [] ch = "6" -> 6 [] ch = "7" -> 7
      [] ch = "8" -> 8 [] ch = "9" -> 9

WhiteSpace == {" ", "\t", "\r", "\n"}

\* s.slice(from) with 1-based from: the characters at positions from..Len(s)
Drop(s, from) == SubSeq(s, from, Len(s))

RECURSIVE TrimStart(_)
TrimStart(s) ==
    IF s # <<>> /\ Head(s) \in WhiteSpace THEN TrimStart(Tail(s)) ELSE s

RECURSIVE TrimEnd(_)
TrimEnd(s) ==
    IF s # <<>> /\ s[Len(s)] \in WhiteSpace
    THEN TrimEnd(SubSeq(s, 1, Len(s) - 1)) ELSE s

Trim(s) == TrimEnd(TrimStart(s))

StartsWith(s, p) == Len(p) <= Len(s) /\ SubSeq(s, 1, Len(p)) = p

EndsWith(s, p) ==
    Len(p) <= Len(s) /\ SubSeq(s, Len(s) - Len(p) + 1, Len(s)) = p

\* 1-based position of the first ch in s, 0 when there is none
IndexOf(s, ch) ==
    IF \E i \in 1..Len(s) : s[i] = ch
    THEN CHOOSE i \in 1..Len(s) :
            s[i] = ch /\ \A j \in 1..(i - 1) : s[j] # ch
    ELSE 0

\* 1-based position of the last ch in s, 0 when there is none
LastIndexOf(s, ch) ==
    IF \E i \in 1..Len(s) : s[i] = ch
    THEN CHOOSE i \in 1..Len(s) :
            s[i] = ch /\ \A j \in (i + 1)..Len(s) : s[j] # ch
    ELSE 0

\* s.split(ch): always at least one piece
RECURSIVE Split(_, _)
Split(s, ch) ==
    LET i == IndexOf(s, ch)
    IN  IF i = 0 THEN <<s>>
        ELSE <<SubSeq(s, 1, i - 1)>> \o Split(Drop(s, i + 1), ch)

\* text.split(/\r?\n/)
RECURSIVE SplitLines(_)
SplitLines(s) ==
    LET i == IndexOf(s, "\n")
    IN  IF i = 0 THEN <<s>>
        ELSE LET piece == SubSeq(s, 1, i - 1)
                 cut == IF piece # <<>> /\ piece[Len(piece)] = "\r"
                        THEN SubSeq(piece, 1, Len(piece) - 1) ELSE piece
             IN  <<cut>> \o SplitLines(Drop(s, i + 1))

RECURSIVE MapTrim(_)
MapTrim(ss) == IF ss = <<>> THEN <<>> ELSE <<Trim(Head(ss))>> \o MapTrim(Tail(ss))

RECURSIVE NonEmpty(_)
NonEmpty(ss) ==
    IF ss = <<>> THEN <<>>
    ELSE IF Head(ss) = <<>> THEN NonEmpty(Tail(ss))
    ELSE <<Head(ss)>> \o NonEmpty(Tail(ss))

\* the number of leading decimal digits of s
RECURSIVE DigitRun(_)
DigitRun(s) ==
    IF s # <<>> /\ Head(s) \in Digits THEN 1 + DigitRun(Tail(s)) ELSE 0

\* the value of a string of decimal digits
RECURSIVE DigitsVal(_)
DigitsVal(s) ==
    IF s = <<>> THEN 0 ELSE 10 * DigitsVal(SubSeq(s, 1, Len(s) - 1)) + DigitVal(s[Len(s)])

RECURSIVE Pow10(_)
Pow10(k) == IF k = 0 THEN 1 ELSE 10 * Pow10(k - 1)

\* the value of the longest run of digits body starts with; NaN when empty
leadingInteger(body, n) == IF n = 0 THEN NaN ELSE Num(DigitsVal(SubSeq(body, 1, n)))

unsignedInt(body) == leadingInteger(body, DigitRun(body))

\* parseInt(s, 10): leading white space, an optional sign, then the longest
\* run of digits; NaN when that run is empty.
signedInt(t) ==
    IF t # <<>> /\ Head(t) = "-" THEN Neg(unsignedInt(Tail(t)))
    ELSE IF t # <<>> /\ Head(t) = "+" THEN unsignedInt(Tail(t))
    ELSE unsignedInt(t)

parseInt(s) == signedInt(TrimStart(s))

\* n1 integer digits and n2 fraction digits (after the point that starts
\* rest); NaN when there is no digit
decimalValue(body, n1, rest, n2) ==
    IF n1 + n2 = 0 THEN NaN
    ELSE MkNum(DigitsVal(SubSeq(body, 1, n1)) * Pow10(n2)
                 + DigitsVal(SubSeq(rest, 2, n2 + 1)),
               Pow10(n2))

decimalTail(body, n1, rest) ==
    decimalValue(body, n1, rest,
                 IF rest # <<>> /\ Head(rest) = "." THEN DigitRun(Tail(rest)) ELSE 0)

decimalHead(body, n1) == decimalTail(body, n1, Drop(body, n1 + 1))

InfinityLiteral == <<"I", "n", "f", "i", "n", "i", "t", "y">>

unsignedFloat(body) ==
    IF StartsWith(body, InfinityLiteral) THEN Infinity
    ELSE decimalHead(body, DigitRun(body))

signedFloat(t) ==
    IF t # <<>> /\ Head(t) = "-" THEN Neg(unsignedFloat(Tail(t)))
    ELSE IF t # <<>> /\ Head(t) = "+" THEN unsignedFloat(Tail(t))
    ELSE unsignedFloat(t)

\* parseFloat(s): leading white space, an optional sign, then the literal
\* Infinity or digits with an optional fraction; NaN when there is neither.
\* Exponents are not produced by the inputs of this model.
parseFloat(s) == signedFloat(TrimStart(s))

----------------------------------------------------------------------------
(* lib/qdfParser.ts: tokenizing *)

RECURSIVE StripBraces(_)
StripBraces(s) ==
    IF s = <<>> THEN <<>>
    ELSE IF Head(s) \in {"{", "}"} THEN StripBraces(Tail(s))
    ELSE <<Head(s)>> \o StripBraces(Tail(s))

splitCommaParams(s) == NonEmpty(MapTrim(Split(s, ",")))

RECURSIVE MapParseFloat(_)
MapParseFloat(ss) ==
    IF ss = <<>> THEN <<>> ELSE <<parseFloat(Head(ss))>> \o MapParseFloat(Tail(ss))

\* The number of fields of an orientation block the decoder reads
OrientationFields == 7

orientationOfNums(nums) ==
    IF \E i \in 1..Len(nums) : IsNaN(nums[i]) THEN <<>>
    ELSE <<[a |-> nums[1], b |-> nums[2], c |-> nums[3], d |-> nums[4],
            x |-> nums[5], y |-> nums[6], z |-> nums[7]]>>

orientationOfParts(parts) ==
    IF Len(parts) < OrientationFields THEN <<>>
    ELSE orientationOfNums(MapParseFloat(SubSeq(parts, 1, OrientationFields)))

\* <<>> for null, else <<[a, b, c, d, x, y, z]>>
parseOrientationBlock(block) ==
    orientationOfParts(NonEmpty(MapTrim(Split(StripBraces(block), ","))))

\* the for loop of extractInnerBraceBlock: the position of the } that brings
\* the depth back to 0, scanning from position i; 0 when there is none
RECURSIVE BraceScan(_, _, _)
BraceScan(content, i, depth) ==
    IF i > Len(content) THEN 0
    ELSE IF content[i] = "{" THEN BraceScan(content, i + 1, depth + 1)
    ELSE IF content[i] = "}"
         THEN IF depth - 1 = 0 THEN i ELSE BraceScan(content, i + 1, depth - 1)
    ELSE BraceScan(content, i + 1, depth)

blockAt(content, start, end) ==
    IF start = 0 \/ end = 0
    THEN [before |-> content, block |-> <<>>, after |-> <<>>]
    ELSE [before |-> SubSeq(content, 1, start - 1),
          block |-> <<SubSeq(content, start, end)>>,
          after |-> Drop(content, end + 1)]

\* blockFrom that ends the block at the first } after start, whatever the depth
blockFromFirstClose(content, start) ==
    blockAt(content, start,
            IF start = 0 THEN 0
            ELSE IF \E i \in start..Len(content) : content[i] = "}"
                 THEN CHOOSE i \in start..Len(content) :
                         content[i] = "}" /\ \A j \in start..(i - 1) : content[j] # "}"
                 ELSE 0)

blockFrom(content, start) ==
    blockAt(content, start, IF start = 0 THEN 0 ELSE BraceScan(content, start, 0))

\* block is <<>> for null, else <<the block>>
extractInnerBraceBlock(content) == blockFrom(content, IndexOf(content, "{"))

RECURSIVE CsvScan(_, _, _, _)
CsvScan(s, i, current, inQuotes) ==
    IF i > Len(s)
    THEN IF Trim(current) # <<>> THEN <<Trim(current)>> ELSE <<>>
    ELSE IF s[i] = "\""
         THEN CsvScan(s, i + 1, Append(current, s[i]), ~inQuotes)
    ELSE IF s[i] = "," /\ ~inQuotes
         THEN <<Trim(current)>> \o CsvScan(s, i + 1, <<>>, inQuotes)
    ELSE CsvScan(s, i + 1, Append(current, s[i]), inQuotes)

\* splitCsvRespectQuotes that starts a new token at every comma
splitCsvAtEveryComma(s) ==
    IF Trim(Split(s, ",")[Len(Split(s, ","))]) = <<>>
    THEN MapTrim(SubSeq(Split(s, ","), 1, Len(Split(s, ",")) - 1))
    ELSE MapTrim(Split(s, ","))

splitCsvRespectQuotes(s) == CsvScan(s, 1, <<>>, FALSE)

contentBetween(line, start, end) ==
    IF start = 0 \/ end = 0 \/ end <= start THEN <<>>
    ELSE <<Trim(SubSeq(line, start + 1, end - 1))>>

\* line.slice(start + 1, end) between the first { and the last } of the
\* line, trimmed; <<>> for the early return null, else <<content>>
outerContent(line) == contentBetween(line, IndexOf(line, "{"), LastIndexOf(line, "}"))

----------------------------------------------------------------------------
(* lib/qdfParser.ts: results of a line decoder *)

Null == [tag |-> "null"]

Some(r) == [tag |-> "some", val |-> r]

\* the call does not return
Hang == [tag |-> "hang"]

----------------------------------------------------------------------------
(* lib/qdfParser.ts: material3 *)

MinMaterialFields == 16

clamp01(v) ==
    IF v.nan THEN NaN
    ELSE IF v.num <= 0 THEN Num(0)
    ELSE IF v.num >= v.den THEN Num(1)
    ELSE v

\* to255 that truncates in place of rounding
to255Truncating(v) == IF v.nan THEN 0 ELSE (255 * v.num) \div v.den

\* Math.round(v * 255) for v in [0, 1], as an integer; ToInt32(NaN) = 0
to255(v) == IF v.nan THEN 0 ELSE (510 * v.num + v.den) \div (2 * v.den)

stripQuotes(rawName) ==
    IF StartsWith(rawName, <<"\"">>) /\ EndsWith(rawName, <<"\"">>)
    THEN SubSeq(rawName, 2, Len(rawName) - 1)
    ELSE rawName

packRgb(sr, sg, sb) == Num(to255(sr) * 65536 + to255(sg) * 256 + to255(sb))

materialRecord(id, name, materialType, lr, lg, lb, colorHex, flags) ==
    [kind |-> "material3",
     id |-> id,
     name |-> name,
     materialType |-> materialType,
     linearColor |-> [r |-> lr, g |-> lg, b |-> lb],
     srgbColor |-> [r |-> lr, g |-> lg, b |-> lb],
     colorHex |-> colorHex,
     meshStandard |-> [color |-> colorHex, metalness |-> Num(0),
                       roughness |-> MkNum(4, 10), opacity |-> Num(1),
                       transparent |-> FALSE],
     flags |-> flags]

materialOfColor(fields, lr, lg, lb) ==
    materialRecord(parseInt(fields[1]), stripQuotes(fields[2]), parseInt(fields[3]),
                   lr, lg, lb, packRgb(lr, lg, lb), parseInt(fields[Len(fields)]))

materialOfFields(fields) ==
    IF Len(fields) < MinMaterialFields THEN Null
    ELSE Some(materialOfColor(fields,
                              clamp01(parseFloat(fields[4])),
                              clamp01(parseFloat(fields[5])),
                              clamp01(parseFloat(fields[6]))))

materialOfContent(oc) ==
    IF oc = <<>> THEN Null ELSE materialOfFields(splitCsvRespectQuotes(oc[1]))

parseMaterialLine(line) == materialOfContent(outerContent(line))


----------------------------------------------------------------------------
(* lib/qdfParser.ts: the keywords parseQdf tests *)

KwMaterial3 == <<"m", "a", "t", "e", "r", "i", "a", "l", "3">>

KwConnector3 == <<"c", "o", "n", "n", "e", "c", "t", "o", "r", "3">>

KwConnector45 == <<"c", "o", "n", "n", "e", "c", "t", "o", "r", "4", "5", "_", "2">>

KwTube2 == <<"t", "u", "b", "e", "2">>

KwPanel2 == <<"p", "a", "n", "e", "l", "2">>

KwDisplay2 == <<"d", "i", "s", "p", "l", "a", "y", "2">>

KwTextil2 == <<"t", "e", "x", "t", "i", "l", "2">>

KwClamp2 == <<"c", "l", "a", "m", "p", "2">>

KwSlide2 == <<"s", "l", "i", "d", "e", "2">>

KwSlideNew2 == <<"s", "l", "i", "d", "e", "-", "n", "e", "w", "2">>

KwSlideEnd2 == <<"s", "l", "i", "d", "e", "-", "e", "n", "d", "2">>

KwMultiWheel2 == <<"m", "u", "l", "t", "i", "-", "w", "h", "e", "e", "l", "2">>

KwCamera2 == <<"c", "a", "m", "e", "r", "a", "2">>

----------------------------------------------------------------------------
(* lib/qdfParser.ts: connector topology *)

\* The while loop of countConnectorBits on a 32-bit integer n: n >>= 1 is
\* the arithmetic shift, whose only non-zero fixed point is -1; once n is
\* negative it never becomes 0 and the loop does not end.
RECURSIVE BitsLoop(_, _)
BitsLoop(n, count) ==
    IF n = 0 THEN [halts |-> TRUE, count |-> count]
    ELSE IF n \div 2 = n THEN [halts |-> FALSE, count |-> count]
    ELSE BitsLoop(n \div 2, count + (n % 2))

\* countConnectorBits of the six direction bits only
countConnectorBitsMasked(n) ==
    IF n.nan THEN [halts |-> TRUE, count |-> 0] ELSE BitsLoop(n.num % 64, 0)

\* while (NaN) is false.  The numbers of this model are within the 32-bit
\* range, where ToInt32 is the identity.
countConnectorBits(n) ==
    IF n.nan THEN [halts |-> TRUE, count |-> 0] ELSE BitsLoop(n.num, 0)

\* bitmask & 0x03, (bitmask & 0x0C) >> 2, (bitmask & 0x30) >> 4
XBits(bitmask) == bitmask % 4

YBits(bitmask) == (bitmask \div 4) % 4

ZBits(bitmask) == (bitmask \div 16) % 4

\* isStraight without the test of the X axis pair
isStraightNoX(bitmask) ==
    LET yAxis == YBits(bitmask) = 3
        zAxis == ZBits(bitmask) = 3
    IN  (yAxis /\ ~zAxis) \/ (~yAxis /\ zAxis)


isStraight(bitmask) ==
    LET xAxis == XBits(bitmask) = 3
        yAxis == YBits(bitmask) = 3
        zAxis == ZBits(bitmask) = 3
    IN  \/ xAxis /\ ~yAxis /\ ~zAxis
        \/ ~xAxis /\ yAxis /\ ~zAxis
        \/ ~xAxis /\ ~yAxis /\ zAxis

\* isCornerConnector that takes any three connections for a corner
isCornerConnectorAnyThree(bitmask) ==
    LET xCount == countConnectorBits(Num(XBits(bitmask))).count
        yCount == countConnectorBits(Num(YBits(bitmask))).count
        zCount == countConnectorBits(Num(ZBits(bitmask))).count
    IN  xCount + yCount + zCount = 3

isCornerConnector(bitmask) ==
    LET xCount == countConnectorBits(Num(XBits(bitmask))).count
        yCount == countConnectorBits(Num(YBits(bitmask))).count
        zCount == countConnectorBits(Num(ZBits(bitmask))).count
        totalConnections == xCount + yCount + zCount
    IN  IF totalConnections = 2
        THEN /\ xCount <= 1 /\ yCount <= 1 /\ zCount <= 1
             /\ (xCount = 0 \/ yCount = 0 \/ zCount = 0)
        ELSE IF totalConnections = 3
        THEN xCount = 1 /\ yCount = 1 /\ zCount = 1
        ELSE FALSE

isCrossConnector(bitmask) ==
    LET xCount == countConnectorBits(Num(XBits(bitmask))).count
        yCount == countConnectorBits(Num(YBits(bitmask))).count
        zCount == countConnectorBits(Num(ZBits(bitmask))).count
    IN  \/ xCount = 0 /\ yCount > 0 /\ zCount > 0
        \/ yCount = 0 /\ xCount > 0 /\ zCount > 0
        \/ zCount = 0 /\ xCount > 0 /\ yCount > 0

\* the switch of getConnectorCategory
categoryOfCount(bitmask, connectionCount) ==
    CASE connectionCount \in {0, 1} -> "INVALID"
      [] connectionCount = 2 ->
            IF isStraight(bitmask.num) THEN "STRAIGHT_CONNECTOR" ELSE "L_CONNECTOR"
      [] connectionCount = 3 ->
            IF isCornerConnector(bitmask.num) THEN "CORNER_CONNECTOR" ELSE "T_CONNECTOR"
      [] connectionCount = 4 ->
            IF isCrossConnector(bitmask.num) THEN "CROSS_CONNECTOR" ELSE "FOUR_WAY_CONNECTOR"
      [] connectionCount = 5 -> "FIVE_WAY_CONNECTOR"
      [] connectionCount = 6 -> "HUB_CONNECTOR"
      [] OTHER -> "INVALID"

categoryOfBits(bitmask, cb) ==
    IF cb.halts THEN [halts |-> TRUE, kind |-> categoryOfCount(bitmask, cb.count)]
    ELSE [halts |-> FALSE, kind |-> "INVALID"]

\* [halts, kind]: kind is meaningful only when the call returns
getConnectorCategory(bitmask) == categoryOfBits(bitmask, countConnectorBits(bitmask))


----------------------------------------------------------------------------
(* lib/qdfParser.ts: geometry records *)

MinConnector3Params == 6

MinConnector45Params == 3

MinTubeParams == 4

MinPanelParams == 6

MinClampParams == 2

\* headOfFields without the test of the id
headOfFieldsNoIdCheck(orientation, id, params, minParams) ==
    IF orientation = <<>> THEN <<>>
    ELSE IF Len(params) < minParams THEN <<>>
    ELSE <<[id |-> id, orientation |-> orientation[1], params |-> params]>>

\* headOfFields with the parameter count compared one too low
headOfFieldsCountOffByOne(orientation, id, params, minParams) ==
    IF orientation = <<>> THEN <<>>
    ELSE IF IsNaN(id) THEN <<>>
    ELSE IF Len(params) < minParams - 1 THEN <<>>
    ELSE <<[id |-> id, orientation |-> orientation[1], params |-> params]>>

\* the tests of the orientation, the id and the parameter count
headOfFields(orientation, id, params, minParams) ==
    IF orientation = <<>> THEN <<>>
    ELSE IF IsNaN(id) THEN <<>>
    ELSE IF Len(params) < minParams THEN <<>>
    ELSE <<[id |-> id, orientation |-> orientation[1], params |-> params]>>

headOfParts(parts, minParams) ==
    IF parts.block = <<>> THEN <<>>
    ELSE headOfFields(parseOrientationBlock(parts.block[1]),
                      parseInt(Trim(Split(parts.before, ",")[1])),
                      splitCommaParams(parts.after),
                      minParams)

headOfContent(oc, minParams) ==
    IF oc = <<>> THEN <<>> ELSE headOfParts(extractInnerBraceBlock(oc[1]), minParams)

\* The steps every geometry decoder starts with: the outer braces, the
\* orientation block, the id, the parameter count.  <<>> for the early
\* return null, else <<[id, orientation, params]>>.
recordHead(line, minParams) == headOfContent(outerContent(line), minParams)

\* params[i - 1] of the code: an index past the end reads undefined, which
\* parseInt and parseFloat convert to the string "undefined"
paramAt(params, i) ==
    IF i <= Len(params) THEN params[i] ELSE <<"u", "n", "d", "e", "f", "i", "n", "e", "d">>

\* renderRange with > in place of >=
renderRangeOffByOne(params, i) ==
    IF Len(params) > i THEN <<parseInt(params[i])>> ELSE <<>>

\* renderRangeStart / renderRangeEnd: <<>> for undefined
renderRange(params, i) == IF Len(params) >= i THEN <<parseInt(params[i])>> ELSE <<>>

\* new THREE.Vector3(x, y, z)
Vector3(x, y, z) == [x |-> x, y |-> y, z |-> z]

\* Vector3.add
addVectors(u, v) == Vector3(Add(u.x, v.x), Add(u.y, v.y), Add(u.z, v.z))

\* A THREE.Quaternion: the components are x, y, z, w divided by the square
\* root of n, which keeps the arithmetic rational.
Quaternion(x, y, z, w) == [x |-> x, y |-> y, z |-> z, w |-> w, n |-> Num(1)]

squaredLength(q) == Add(Add(Mul(q.x, q.x), Mul(q.y, q.y)), Add(Mul(q.z, q.z), Mul(q.w, q.w)))

\* the components of q times l
scaled(q, l) ==
    [x |-> Mul(q.x, l), y |-> Mul(q.y, l), z |-> Mul(q.z, l), w |-> Mul(q.w, l),
     n |-> q.n]

\* Quaternion.normalize: the identity when the length is 0, else the
\* components times l = 1 / length.  For a finite length that is the division
\* by the root of len2; for an infinite length l is 0, and for a NaN length
\* l is NaN.
normalizeTo(q, len2) ==
    IF len2.nan THEN scaled([q EXCEPT !.n = Num(1)], NaN)
    ELSE IF len2.den = 0 THEN scaled([q EXCEPT !.n = Num(1)], Num(0))
    ELSE IF len2.num = 0 THEN Quaternion(Num(0), Num(0), Num(0), Num(1))
    ELSE [q EXCEPT !.n = len2]

normalize(q) == normalizeTo(q, squaredLength(q))

\* Quaternion.multiply: a x b
multiply(a, b) ==
    [x |-> Sub(Add(Add(Mul(a.x, b.w), Mul(a.w, b.x)), Mul(a.y, b.z)), Mul(a.z, b.y)),
     y |-> Sub(Add(Add(Mul(a.y, b.w), Mul(a.w, b.y)), Mul(a.z, b.x)), Mul(a.x, b.z)),
     z |-> Sub(Add(Add(Mul(a.z, b.w), Mul(a.w, b.z)), Mul(a.x, b.y)), Mul(a.y, b.x)),
     w |-> Sub(Sub(Sub(Mul(a.w, b.w), Mul(a.x, b.x)), Mul(a.y, b.y)), Mul(a.z, b.z)),
     n |-> Mul(a.n, b.n)]

\* new THREE.Quaternion().setFromAxisAngle((0, 0, 1), Math.PI / 2): the
\* quaternion (0, 0, sin(pi/4), cos(pi/4)) = (0, 0, 1, 1) / sqrt(2)
zRotation == [x |-> Num(0), y |-> Num(0), z |-> Num(1), w |-> Num(1), n |-> Num(2)]

\* t = 2 * cross(q.xyz, v), still to be divided by the square root of q.n
crossTwice(v, q) ==
    Vector3(Mul(Num(2), Sub(Mul(q.y, v.z), Mul(q.z, v.y))),
            Mul(Num(2), Sub(Mul(q.z, v.x), Mul(q.x, v.z))),
            Mul(Num(2), Sub(Mul(q.x, v.y), Mul(q.y, v.x))))

\* v + q.w * t + cross(q.xyz, t)
rotatedBy(v, q, t) ==
    Vector3(Add(v.x, Div(Sub(Add(Mul(q.w, t.x), Mul(q.y, t.z)), Mul(q.z, t.y)), q.n)),
            Add(v.y, Div(Sub(Add(Mul(q.w, t.y), Mul(q.z, t.x)), Mul(q.x, t.z)), q.n)),
            Add(v.z, Div(Sub(Add(Mul(q.w, t.z), Mul(q.x, t.y)), Mul(q.y, t.x)), q.n)))

\* Vector3.applyQuaternion
applyQuaternion(v, q) == rotatedBy(v, q, crossTwice(v, q))

\* reverseSquaredScaling without the sign
reverseSquaredScalingUnsigned(value) ==
    IF ~value.nan /\ value.num < 0 THEN Sqrt(Neg(value)) ELSE Sqrt(value)

\* sign(value) * sqrt(abs(value))
reverseSquaredScaling(value) ==
    IF ~value.nan /\ value.num < 0 THEN Neg(Sqrt(Neg(value))) ELSE Sqrt(value)

decodeQdfQuaternion(ori) ==
    normalize(multiply(normalize(Quaternion(reverseSquaredScaling(ori.b),
                                            reverseSquaredScaling(ori.c),
                                            reverseSquaredScaling(ori.d),
                                            reverseSquaredScaling(ori.a))),
                       zRotation))

\* new THREE.Vector3(orientation.x, orientation.y, orientation.z)
positionVector(orientation) == Vector3(orientation.x, orientation.y, orientation.z)

\* addHalfTubeOffset without the rotation of the local offset
addHalfTubeOffsetUnrotated(lengthMm, unitScale, qFinal) ==
    Vector3(Num(0), Neg(Mul(Half(lengthMm), unitScale)), Num(0))

\* the local offset (0, -half, 0) rotated by the record's quaternion
addHalfTubeOffset(lengthMm, unitScale, qFinal) ==
    applyQuaternion(Vector3(Num(0), Neg(Mul(Half(lengthMm), unitScale)), Num(0)), qFinal)

\* the return statement of a decoder, after the visibility-range test
visibleOnly(renderRangeStart, record) ==
    IF renderRangeStart # <<>> THEN Null ELSE Some(record)

connector3Record(hd, p, connectorType, cat) ==
    [kind |-> "connector3",
     id |-> hd.id,
     orientation |-> hd.orientation,
     position |-> positionVector(hd.orientation),
     quaternion |-> decodeQdfQuaternion(hd.orientation),
     colorId |-> parseInt(paramAt(p, 1)),
     variant1 |-> parseInt(paramAt(p, 2)),
     variant2 |-> connectorType,
     variant3 |-> parseInt(paramAt(p, 4)),
     variant4 |-> parseInt(paramAt(p, 5)),
     connectorKind |-> cat.kind,
     reserved |-> parseInt(paramAt(p, 6)),
     renderRangeStart |-> renderRange(p, 7),
     renderRangeEnd |-> renderRange(p, 8)]

\* getConnectorCategory is called before the visibility-range test
connector3OfCategory(hd, p, connectorType, cat) ==
    IF ~cat.halts THEN Hang
    ELSE visibleOnly(renderRange(p, 7), connector3Record(hd, p, connectorType, cat))

connector3OfType(hd, p, connectorType) ==
    connector3OfCategory(hd, p, connectorType, getConnectorCategory(connectorType))

connector3OfHead(h) ==
    IF h = <<>> THEN Null
    ELSE connector3OfType(h[1], h[1].params, parseInt(paramAt(h[1].params, 3)))

parseConnector3Line(line) == connector3OfHead(recordHead(line, MinConnector3Params))

connector45Record(hd, p) ==
    [kind |-> "connector45_2",
     id |-> hd.id,
     orientation |-> hd.orientation,
     position |-> positionVector(hd.orientation),
     quaternion |-> decodeQdfQuaternion(hd.orientation),
     connectorType |-> parseInt(paramAt(p, 1)),
     connectorKind |-> "FOURTY_FIVE_DEGREE_CONNECTOR",
     flag1 |-> parseInt(paramAt(p, 2)),
     flag2 |-> parseInt(paramAt(p, 3)),
     renderRangeStart |-> renderRange(p, 4),
     renderRangeEnd |-> renderRange(p, 5)]

connector45OfHead(h) ==
    IF h = <<>> THEN Null
    ELSE visibleOnly(renderRange(h[1].params, 4), connector45Record(h[1], h[1].params))

parseConnector45Line(line) == connector45OfHead(recordHead(line, MinConnector45Params))

tubeRecord(hd, p, dim1, quaternion) ==
    [kind |-> "tube2",
     id |-> hd.id,
     orientation |-> hd.orientation,
     position |-> addVectors(positionVector(hd.orientation),
                             addHalfTubeOffset(dim1, Num(1), quaternion)),
     quaternion |-> quaternion,
     materialId |-> parseInt(paramAt(p, 1)),
     length |-> dim1,
     dim2 |-> parseFloat(paramAt(p, 3)),
     dim3 |-> parseFloat(paramAt(p, 4)),
     renderRangeStart |-> renderRange(p, 5),
     renderRangeEnd |-> renderRange(p, 6)]

tubeOfHead(h) ==
    IF h = <<>> THEN Null
    ELSE visibleOnly(renderRange(h[1].params, 5),
                     tubeRecord(h[1], h[1].params, parseFloat(paramAt(h[1].params, 2)),
                                decodeQdfQuaternion(h[1].orientation)))

parseTubeLine(line) == tubeOfHead(recordHead(line, MinTubeParams))

panelRecord(hd, p, kind) ==
    [kind |-> kind,
     id |-> hd.id,
     orientation |-> hd.orientation,
     position |-> positionVector(hd.orientation),
     quaternion |-> decodeQdfQuaternion(hd.orientation),
     materialId |-> parseInt(paramAt(p, 1)),
     dim1 |-> parseFloat(paramAt(p, 2)),
     dim2 |-> parseFloat(paramAt(p, 3)),
     dim3 |-> parseFloat(paramAt(p, 4)),
     offset1 |-> parseFloat(paramAt(p, 5)),
     offset2 |-> parseFloat(paramAt(p, 6)),
     renderRangeStart |-> renderRange(p, 7),
     renderRangeEnd |-> renderRange(p, 8)]

panelOfHead(h, kind) ==
    IF h = <<>> THEN Null
    ELSE visibleOnly(renderRange(h[1].params, 7), panelRecord(h[1], h[1].params, kind))

parsePanelLike(line, kind) == panelOfHead(recordHead(line, MinPanelParams), kind)

clampRecord(hd, p, kind) ==
    [kind |-> kind,
     id |-> hd.id,
     orientation |-> hd.orientation,
     position |-> positionVector(hd.orientation),
     quaternion |-> decodeQdfQuaternion(hd.orientation),
     materialId |-> parseInt(paramAt(p, 1)),
     flag |-> parseInt(paramAt(p, 2)),
     renderRangeStart |-> renderRange(p, 3),
     renderRangeEnd |-> renderRange(p, 4)]

clampOfHead(h, kind) ==
    IF h = <<>> THEN Null
    ELSE visibleOnly(renderRange(h[1].params, 3), clampRecord(h[1], h[1].params, kind))

parseClampLike(line, kind) == clampOfHead(recordHead(line, MinClampParams), kind)


----------------------------------------------------------------------------
(* lib/qdfParser.ts: parseQdf *)

\* a slide-new2 record that keeps its own keyword as kind tag
SlideNewKindOwn == "slide-new2"

\* the kind tag handed to parseClampLike for a slide-new2 line
SlideNewKind == "slide2"

\* a line the loop skips, and a line handed to a geometry decoder
skipLine == [list |-> "none", res |-> Null]

geometryLine(r) == [list |-> "geometries", res |-> r]

\* the chain of startsWith tests on the trimmed line
dispatchTrimmed(line) ==
    IF line = <<>> THEN skipLine
    ELSE IF StartsWith(line, <<"0", ",">>) /\ EndsWith(line, <<";">>) THEN skipLine
    ELSE IF StartsWith(line, <<"/", "/">>) \/ StartsWith(line, <<"#">>) THEN skipLine
    ELSE IF StartsWith(line, KwMaterial3)
         THEN [list |-> "materials", res |-> parseMaterialLine(line)]
    ELSE IF StartsWith(line, KwConnector3) THEN geometryLine(parseConnector3Line(line))
    ELSE IF StartsWith(line, KwConnector45) THEN geometryLine(parseConnector45Line(line))
    ELSE IF StartsWith(line, KwTube2) THEN geometryLine(parseTubeLine(line))
    ELSE IF StartsWith(line, KwPanel2) THEN geometryLine(parsePanelLike(line, "panel2"))
    ELSE IF StartsWith(line, KwDisplay2) THEN geometryLine(parsePanelLike(line, "display2"))
    ELSE IF StartsWith(line, KwTextil2) THEN geometryLine(parsePanelLike(line, "textil2"))
    ELSE IF StartsWith(line, KwClamp2) THEN geometryLine(parseClampLike(line, "clamp2"))
    ELSE IF StartsWith(line, KwSlide2) THEN geometryLine(parseClampLike(line, "slide2"))
    ELSE IF StartsWith(line, KwSlideNew2)
         THEN geometryLine(parseClampLike(line, SlideNewKind))
    ELSE IF StartsWith(line, KwSlideEnd2)
         THEN geometryLine(parseClampLike(line, "slide-end2"))
    ELSE IF StartsWith(line, KwMultiWheel2)
         THEN geometryLine(parseClampLike(line, "multi-wheel2"))
    ELSE skipLine

\* dispatchLine that reads on behind a // comment marker
dispatchLineThroughComment(rawLine) ==
    IF StartsWith(Trim(rawLine), <<"/", "/">>)
    THEN dispatchTrimmed(Drop(Trim(rawLine), 3))
    ELSE dispatchTrimmed(Trim(rawLine))

\* One iteration of the first for loop: which decoder, if any, the line is
\* handed to.  [list, res]: the list the result is pushed on ("none" when
\* the line is skipped) and the decoder's result.
dispatchLine(rawLine) == dispatchTrimmed(Trim(rawLine))

\* pushResult with geometries.unshift in place of geometries.push
pushResultUnshift(acc, d) ==
    IF d.res.tag = "hang" THEN [acc EXCEPT !.halts = FALSE]
    ELSE IF d.res.tag = "some" /\ d.list = "materials"
         THEN [acc EXCEPT !.materials = Append(@, d.res.val)]
    ELSE IF d.res.tag = "some"
         THEN [acc EXCEPT !.geometries = <<d.res.val>> \o @]
    ELSE acc

\* pushResult that pushes an accepted geometry record twice
pushResultTwice(acc, d) ==
    IF d.res.tag = "hang" THEN [acc EXCEPT !.halts = FALSE]
    ELSE IF d.res.tag = "some" /\ d.list = "materials"
         THEN [acc EXCEPT !.materials = Append(@, d.res.val)]
    ELSE IF d.res.tag = "some"
         THEN [acc EXCEPT !.geometries = Append(Append(@, d.res.val), d.res.val)]
    ELSE acc

\* the pushes of one iteration: if (mat) materials.push(mat), if (c)
\* geometries.push(c); a decoder that does not return stops the call
pushResult(acc, d) ==
    IF d.res.tag = "hang" THEN [acc EXCEPT !.halts = FALSE]
    ELSE IF d.res.tag = "some" /\ d.list = "materials"
         THEN [acc EXCEPT !.materials = Append(@, d.res.val)]
    ELSE IF d.res.tag = "some"
         THEN [acc EXCEPT !.geometries = Append(@, d.res.val)]
    ELSE acc

\* The first for loop over lines i..Len(lines), from the accumulated lists
RECURSIVE lineLoop(_, _, _)
lineLoop(lines, i, acc) ==
    IF i > Len(lines) \/ ~acc.halts THEN acc
    ELSE lineLoop(lines, i + 1, pushResult(acc, dispatchLine(lines[i])))

\* ofKind with a return in place of the break of a case
RECURSIVE ofKindFirstOnly(_, _)
ofKindFirstOnly(gs, kind) ==
    IF gs = <<>> THEN <<>>
    ELSE IF Head(gs).kind = kind THEN <<Head(gs)>>
    ELSE ofKindFirstOnly(Tail(gs), kind)

\* The second for loop: the records of gs with the given kind tag, in order
RECURSIVE ofKind(_, _)
ofKind(gs, kind) ==
    IF gs = <<>> THEN <<>>
    ELSE IF Head(gs).kind = kind THEN <<Head(gs)>> \o ofKind(Tail(gs), kind)
    ELSE ofKind(Tail(gs), kind)

\* the QdfParsedFile built from the two lists
parsedFile(t, materials, g) ==
    [rawText |-> t,
     materials |-> materials,
     geometries |-> g,
     connectors |-> ofKind(g, "connector3"),
     connector45s |-> ofKind(g, "connector45_2"),
     tubes |-> ofKind(g, "tube2"),
     panels |-> ofKind(g, "panel2"),
     displayPanels |-> ofKind(g, "display2"),
     textiles |-> ofKind(g, "textil2"),
     clamps |-> ofKind(g, "clamp2"),
     slides |-> ofKind(g, "slide2"),
     slideEnds |-> ofKind(g, "slide-end2"),
     wheels |-> ofKind(g, "multi-wheel2")]

resultOfLoop(t, acc) ==
    IF ~acc.halts THEN Hang ELSE Some(parsedFile(t, acc.materials, acc.geometries))

\* Hang when the call does not return, else Some(the QdfParsedFile)
parseQdf(t) ==
    resultOfLoop(t, lineLoop(SplitLines(t), 1,
                             [halts |-> TRUE, materials |-> <<>>, geometries |-> <<>>]))


----------------------------------------------------------------------------
(* Input texts.  A text is composed from line descriptions: src records    *)
(* how the text handed to parseQdf was written, text is the string itself. *)

\* the most lines of a composed multi-line text
MaxLines == 3

\* the most trailing parameters a line carries beyond its kind's minimum
MaxExtra == 1

\* `Error reading file: ${err}` for the ProgressEvent of reader.onerror
ReadErrorText ==
    <<"E", "r", "r", "o", "r", " ", "r", "e", "a", "d", "i", "n", "g", " ",
      "f", "i", "l", "e", ":", " ", "[", "o", "b", "j", "e", "c", "t", " ",
      "P", "r", "o", "g", "r", "e", "s", "s", "E", "v", "e", "n", "t", "]">>

\* the message of handleSearchSubmit for the search text x
NotFoundText ==
    <<"E", "r", "r", "o", "r", ":", " ", "C", "o", "u", "l", "d", " ", "n",
      "o", "t", " ", "f", "i", "n", "d", " ", "Q", "D", "F", " ", "f", "i",
      "l", "e", " ", "f", "o", "r", " ", "\"", "x", "\"", " ", "i", "n",
      " ", "a", "n", "y", " ", "o", "f", " ", "t", "h", "e", " ", "t", "e",
      "m", "p", "l", "a", "t", "e", " ", "s", "i", "t", "e", "s", ".">>

RECURSIVE Join(_, _)
Join(ss, sep) ==
    IF ss = <<>> THEN <<>>
    ELSE IF Len(ss) = 1 THEN ss[1]
    ELSE ss[1] \o sep \o Join(Tail(ss), sep)

GeometryKeywords ==
    {"connector3", "connector45_2", "tube2", "panel2", "display2", "textil2",
     "clamp2", "slide2", "slide-new2", "slide-end2", "multi-wheel2"}

RecognizedKeywords == GeometryKeywords \cup {"material3"}

KeywordChars(k) ==
    CASE k = "material3" -> KwMaterial3
      [] k = "connector3" -> KwConnector3
      [] k = "connector45_2" -> KwConnector45
      [] k = "tube2" -> KwTube2
      [] k = "panel2" -> KwPanel2
      [] k = "display2" -> KwDisplay2
      [] k = "textil2" -> KwTextil2
      [] k = "clamp2" -> KwClamp2
      [] k = "slide2" -> KwSlide2
      [] k = "slide-new2" -> KwSlideNew2
      [] k = "slide-end2" -> KwSlideEnd2
      [] k = "multi-wheel2" -> KwMultiWheel2
      [] k = "camera2" -> KwCamera2
      [] k = "tube2x" -> KwTube2 \o <<"x">>
      [] k = "comment-slash" -> <<"/", "/">> \o KwTube2
      [] k = "comment-hash" -> <<" ", "#">> \o KwTube2
      [] k = "header" -> <<"0", ",">> \o KwTube2
      [] k = "blank" -> <<>>
      [] k = "read-error" -> ReadErrorText
      [] k = "not-found" -> NotFoundText

\* the kind tag a keyword's records carry
KindTag(k) == IF k = "slide-new2" THEN "slide2" ELSE k

\* the fewest fields after the id (and orientation block) a keyword needs
MinParams(k) ==
    CASE k = "material3" -> MinMaterialFields - 1
      [] k = "connector3" -> MinConnector3Params
      [] k = "connector45_2" -> MinConnector45Params
      [] k = "tube2" -> MinTubeParams
      [] k \in {"panel2", "display2", "textil2"} -> MinPanelParams
      [] k = "camera2" -> 0
      [] OTHER -> MinClampParams

\* a well-formed parameter list of each keyword, of minimum length
BaseParams(k) ==
    CASE k = "material3" -> <<<<"\"", "R", "e", "d", "\"">>, <<"0">>, <<"1">>, <<"0", ".", "5">>, <<"0">>, <<"0">>, <<"0">>, <<"0">>, <<"0">>, <<"0">>, <<"0">>, <<"0">>, <<"0">>, <<"0">>, <<"0">>>>
      [] k = "connector3" -> <<<<"5">>, <<"0">>, <<"3">>, <<"0">>, <<"0">>, <<"0">>>>
      [] k = "connector45_2" -> <<<<"1">>, <<"0">>, <<"0">>>>
      [] k = "tube2" -> <<<<"1">>, <<"1", "0", "0">>, <<"0">>, <<"0">>>>
      [] k \in {"panel2", "display2", "textil2"} -> <<<<"1">>, <<"1", "0", "0">>, <<"2", "0", "0">>, <<"3">>, <<"0">>, <<"0">>>>
      [] k = "camera2" -> <<>>
      [] OTHER -> <<<<"1">>, <<"0">>>>

ExtraToken == <<"7">>

BadToken == <<"x">>

NegativeToken == <<"-", "1">>

\* the first n parameters: the base list, then extra numeric fields
ParamsOfCount(k, n) ==
    [i \in 1..n |-> IF i <= Len(BaseParams(k)) THEN BaseParams(k)[i] ELSE ExtraToken]

OriOk == <<<<"0">>, <<"0">>, <<"0">>, <<"1">>, <<"1", "0", "0">>, <<"2", "0", "0">>, <<"3", "0", "0">>>>

OriShort == SubSeq(OriOk, 1, 6)

OriLong == Append(OriOk, <<"4", "0", "0">>)

OriBad == [OriOk EXCEPT ![5] = BadToken]

\* the orientation blocks tried: <<>> is a line without a block
Orientations == {<<OriOk>>, <<OriShort>>, <<OriLong>>, <<OriBad>>, <<>>}

\* the outer delimiters of a record: as the decoder expects them, with one
\* missing or in surplus, and the comma / semicolon layout
Styles ==
    {[open |-> <<"{">>, close |-> <<"}">>],
     [open |-> <<>>, close |-> <<"}">>],
     [open |-> <<"{">>, close |-> <<>>],
     [open |-> <<"{", "{">>, close |-> <<"}">>],
     [open |-> <<"{">>, close |-> <<"}", "}">>],
     [open |-> <<",">>, close |-> <<";">>]}

Braced == [open |-> <<"{">>, close |-> <<"}">>]

IdTokens == {<<"1">>, BadToken}

OddIdTokens == {<<>>, <<"2", "a">>, <<"-", "3">>, <<"1", ".", "5">>, <<" ", "4", " ">>}

Shape(k, st, id, ori, params) ==
    [kw |-> k, style |-> st, id |-> id, ori |-> ori, params |-> params]

Block(fields) == <<"{">> \o Join(fields, <<",">>) \o <<"}">>

Render(sh) ==
    KeywordChars(sh.kw) \o sh.style.open
      \o Join(<<sh.id>>
                \o (IF sh.ori = <<>> THEN <<>> ELSE <<Block(sh.ori[1])>>)
                \o sh.params, <<",">>)
      \o sh.style.close

RECURSIVE RenderAll(_)
RenderAll(shs) ==
    IF shs = <<>> THEN <<>> ELSE <<Render(Head(shs))>> \o RenderAll(Tail(shs))

TextOf(shs) == Join(RenderAll(shs), <<"\n">>)

OriOf(k) == IF k = "material3" THEN {<<>>} ELSE Orientations

\* every combination of delimiters, id, orientation block and parameter count
ProductShapes ==
    UNION {{Shape(k, st, id, ori, ParamsOfCount(k, n)) :
                st \in Styles, id \in IdTokens, ori \in OriOf(k),
                n \in (MinParams(k) - 1)..(MinParams(k) + MaxExtra)} :
           k \in RecognizedKeywords}

WellFormed(k, n) ==
    Shape(k, Braced, <<"1">>, IF k = "material3" THEN <<>> ELSE <<OriOk>>,
          ParamsOfCount(k, n))

\* a well-formed line with one parameter replaced by a non-number or by a
\* negative number
SubstShapes ==
    UNION {{[WellFormed(k, n) EXCEPT !.params[i] = t] :
                n \in MinParams(k)..(MinParams(k) + MaxExtra),
                i \in 1..MinParams(k), t \in {BadToken, NegativeToken}} :
           k \in RecognizedKeywords}

\* a well-formed line with an unusual id token
OddIdShapes ==
    {[WellFormed(k, MinParams(k)) EXCEPT !.id = id] :
        k \in RecognizedKeywords, id \in OddIdTokens}

\* a keyword parseQdf does not test
UnknownShapes == {Shape("camera2", Braced, <<"1">>, <<OriOk>>, <<<<"5">>, <<"0">>, <<"3">>, <<"0">>, <<"0">>, <<"0">>>>)}

\* a keyword that is not recognized and begins with a recognized one
PrefixedShapes == {Shape("tube2x", Braced, <<"1">>, <<OriOk>>, BaseParams("tube2"))}

\* the decimal numeral of n >= 0
RECURSIVE DecimalChars(_)
DecimalChars(n) ==
    IF n < 10 THEN <<CHOOSE c \in Digits : DigitVal(c) = n>>
    ELSE Append(DecimalChars(n \div 10), CHOOSE c \in Digits : DigitVal(c) = n % 10)

\* the connection masks of six direction bits
ConnectorMasks == 0..63

\* a well-formed connector3 line of each connection mask
MaskShapes ==
    {[WellFormed("connector3", MinConnector3Params) EXCEPT !.params[3] = DecimalChars(m)] :
        m \in ConnectorMasks}

\* connectorType values with bits above the six direction bits: one bit,
\* two bits with none or one direction bit, three and more, seven and eight
WideMasks == {64, 65, 66, 67, 69, 96, 127, 128, 191, 192, 193, 255, 320, 448, 511}

WideMaskShapes ==
    {[WellFormed("connector3", MinConnector3Params) EXCEPT !.params[3] = DecimalChars(m)] :
        m \in WideMasks}

\* channel values below 0, inside [0, 1], at and above 1, and a non-number
ColorTokens == {<<"-", "1">>, <<"0", ".", "2", "5">>, <<"0", ".", "5">>, <<"1">>, <<"2">>, BadToken}

NameTokens == {<<"\"", "R", "e", "d", "\"">>, <<"R", "e", "d">>, <<"\"", "\"">>}

\* material3 lines of each name and each colour
MaterialShapes ==
    {[WellFormed("material3", MinMaterialFields - 1)
        EXCEPT !.params[1] = nm, !.params[3] = r, !.params[4] = g, !.params[5] = b] :
        nm \in NameTokens, r \in ColorTokens, g \in ColorTokens, b \in {<<"0">>, <<"0", ".", "2", "5">>}}

\* the fields a, b, c, d of an orientation block: signed squares of the
\* components of a rotation, of a zero quaternion and of an unnormalized one
TurnFields ==
    {<<<<"0">>, <<"0">>, <<"0">>, <<"1">>>>,
     <<<<"1">>, <<"0">>, <<"0">>, <<"0">>>>,
     <<<<"0">>, <<"0">>, <<"0">>, <<"0">>>>,
     <<<<"-", "4">>, <<"0">>, <<"0">>, <<"0">>>>,
     <<<<"0", ".", "2", "5">>, <<"0", ".", "2", "5">>, <<"0", ".", "2", "5">>, <<"0", ".", "2", "5">>>>,
     <<<<"-", "0", ".", "2", "5">>, <<"0", ".", "2", "5">>, <<"-", "0", ".", "2", "5">>, <<"0", ".", "2", "5">>>>,
     <<<<"0", ".", "3", "6">>, <<"0", ".", "6", "4">>, <<"0">>, <<"0">>>>,
     <<<<"0">>, <<"-", "0", ".", "6", "4">>, <<"0", ".", "3", "6">>, <<"0">>>>}

\* tube lengths: none, whole, with a half, not a number
LengthTokens == {<<"0">>, <<"1", "0", "0">>, <<"2", "5">>, BadToken}

Turned(k, f) ==
    [WellFormed(k, MinParams(k)) EXCEPT !.ori = <<f \o SubSeq(OriOk, 5, 7)>>]

\* well-formed geometry lines of each kind in each orientation, the tubes of
\* each length
TurnedShapes ==
    {Turned(k, f) : k \in GeometryKeywords, f \in TurnFields}
      \cup {[Turned("tube2", f) EXCEPT !.params[2] = len] :
                f \in TurnFields, len \in LengthTokens}

\* orientation fields a..d with an infinite value: the literal Infinity with
\* either sign, alone and beside finite fields
UnboundedFields ==
    {<<InfinityLiteral, <<"0">>, <<"0">>, <<"0">>>>,
     <<<<"0">>, <<"-">> \o InfinityLiteral, <<"0">>, <<"1">>>>,
     <<InfinityLiteral, InfinityLiteral, <<"0", ".", "2", "5">>, <<"0">>>>}

UnboundedShapes == {Turned(k, f) : k \in GeometryKeywords, f \in UnboundedFields}

SkipKinds == {"comment-slash", "comment-hash", "header", "blank"}

\* lines the first loop skips: a well-formed tube2 record behind a comment
\* marker or inside the header's 0, ... ; and blank lines
SkipShapes ==
    {Shape("comment-slash", Braced, <<"1">>, <<OriOk>>, BaseParams("tube2")),
     Shape("comment-hash", Braced, <<"1">>, <<OriOk>>, BaseParams("tube2")),
     Shape("header", [open |-> <<"{">>, close |-> <<"}", ";">>], <<"1">>, <<OriOk>>,
           BaseParams("tube2")),
     Shape("blank", [open |-> <<>>, close |-> <<>>], <<>>, <<>>, <<>>),
     Shape("blank", [open |-> <<>>, close |-> <<>>], <<" ", "\t">>, <<>>, <<>>)}

\* the most lines of a text that mixes records with skipped and ignored lines
MixLines == 2

\* the lines such a text is composed of
MixShapes ==
    SkipShapes \cup UnknownShapes \cup PrefixedShapes
      \cup {WellFormed("tube2", MinTubeParams),
            WellFormed("material3", MinMaterialFields - 1),
            [WellFormed("connector3", MinConnector3Params) EXCEPT !.params[3] = NegativeToken],
            [WellFormed("panel2", MinPanelParams) EXCEPT !.params[1] = <<"9">>]}

\* the lines multi-line texts are composed of: records that share an id and
\* differ in another field, records of several kinds, a rejected record
ListShapes ==
    {WellFormed("tube2", MinTubeParams),
     [WellFormed("tube2", MinTubeParams) EXCEPT !.params[2] = <<"2", "5", "0">>],
     WellFormed("tube2", MinTubeParams + 1),
     WellFormed("slide-new2", MinClampParams),
     WellFormed("connector3", MinConnector3Params),
     WellFormed("material3", MinMaterialFields - 1),
     [WellFormed("material3", MinMaterialFields - 1) EXCEPT !.params[1] = <<"\"", "B", "l", "u", "e", "\"">>]}

RECURSIVE SeqsUpTo(_, _)
SeqsUpTo(S, n) ==
    IF n = 0 THEN {<<>>}
    ELSE LET shorter == SeqsUpTo(S, n - 1)
         IN  shorter \cup {Append(s, x) : s \in {t \in shorter : Len(t) = n - 1}, x \in S}

Inputs ==
    {<<sh>> : sh \in ProductShapes \cup SubstShapes \cup OddIdShapes \cup UnknownShapes
                      \cup PrefixedShapes \cup MaskShapes \cup WideMaskShapes
                      \cup SkipShapes
                      \cup MaterialShapes \cup TurnedShapes}
      \cup SeqsUpTo(ListShapes, MaxLines)
      \cup SeqsUpTo(MixShapes, MixLines)

----------------------------------------------------------------------------
(* The call parseQdf(text) *)

\* the refs of ThreeCanvas that setGlow works on, for n pickable objects:
\* currentGlowingRef.current (<<>> for null), the material of each object's
\* meshes ("original" for the material the renderer gave it, "glow" for a
\* clone with emissive set) and what originalMaterials holds for them (<<>>
\* for no entry).  The meshes of one group are switched together.
glowOf(n) ==
    [current |-> <<>>,
     material |-> [i \in 1..n |-> "original"],
     original |-> [i \in 1..n |-> <<>>]]

NoGlow == glowOf(0)

\* the refs the XR handlers work on before any session: the main scene group
\* at scale 1 and visible, the reticle hidden, hitTestSourceRef null
NoSession ==
    [sessions |-> <<>>, active |-> FALSE, scale |-> "1", visible |-> TRUE,
     reticle |-> FALSE, modelPlaced |-> FALSE, hitTestSource |-> <<>>,
     obtained |-> {}, cancelled |-> {}, logged |-> {}]

\* no page around the decoder: nothing shown, rendered or picked
NoPage ==
    /\ shown = <<>> /\ calls = <<>> /\ io = "none" /\ scene = <<>> /\ picked = <<>>
    /\ glow = NoGlow
    /\ xr = NoSession

Init ==
    /\ src \in Inputs
    /\ text = TextOf(src)
    /\ pc = "call"
    /\ parsed = <<>>
    /\ NoPage

\* the caller receives the model, or the call never returns
Outcome(r) ==
    IF r.tag = "hang"
    THEN pc' = "hung" /\ parsed' = parsed
    ELSE pc' = "returned" /\ parsed' = <<r.val>>

\* parseQdf runs to its return statement, or never returns
ParseQdf ==
    /\ pc = "call"
    /\ Outcome(parseQdf(text))
    /\ UNCHANGED <<src, text, shown, calls, io, scene, picked, glow, xr>>

Next == ParseQdf

Spec == Init /\ [][Next]_vars

\* parseQdf on one geometry line of each kind in each orientation, finite
\* and infinite
TurnInit ==
    /\ src \in {<<sh>> : sh \in TurnedShapes \cup UnboundedShapes}
    /\ text = TextOf(src)
    /\ pc = "call"
    /\ parsed = <<>>
    /\ NoPage

TurnSpec == TurnInit /\ [][Next]_vars

----------------------------------------------------------------------------
(* Single functions applied to inputs of a bounded set: src is the input, *)
(* text what the function is given, parsed its result.                    *)

MaxRoot == 30

\* the scaling the decoder reverses: sign(x) * x^2
forwardSquaredScaling(v) == IF v.num < 0 THEN Neg(Mul(v, v)) ELSE Mul(v, v)

ScalingInit ==
    /\ src \in {Num(v) : v \in (0 - MaxRoot)..MaxRoot}
    /\ text = forwardSquaredScaling(src)
    /\ pc = "call"
    /\ parsed = <<>>
    /\ NoPage

\* qa = reverseSquaredScaling(ori.a)
ReverseScaling ==
    /\ pc = "call"
    /\ pc' = "returned"
    /\ parsed' = <<reverseSquaredScaling(text)>>
    /\ UNCHANGED <<src, text, shown, calls, io, scene, picked, glow, xr>>

ScalingNext == ReverseScaling

ScalingSpec == ScalingInit /\ [][ScalingNext]_vars

MaxBraceLen == 5

\* the contents extractInnerBraceBlock is given: braces and plain text
BraceTexts == SeqsUpTo({"{", "}", "a"}, MaxBraceLen)

BraceInit ==
    /\ src \in BraceTexts
    /\ text = src
    /\ pc = "call"
    /\ parsed = <<>>
    /\ NoPage

\* const { before, block, after } = extractInnerBraceBlock(content)
ExtractBlock ==
    /\ pc = "call"
    /\ pc' = "returned"
    /\ parsed' = <<extractInnerBraceBlock(text)>>
    /\ UNCHANGED <<src, text, shown, calls, io, scene, picked, glow, xr>>

BraceNext == ExtractBlock

BraceSpec == BraceInit /\ [][BraceNext]_vars

MaxCsvLen == 4

\* the contents splitCsvRespectQuotes is given: commas, quotes, blanks, text
CsvTexts == SeqsUpTo({",", "\"", " ", "a"}, MaxCsvLen)

CsvInit ==
    /\ src \in CsvTexts
    /\ text = src
    /\ pc = "call"
    /\ parsed = <<>>
    /\ NoPage

\* const fields = splitCsvRespectQuotes(content)
SplitCsv ==
    /\ pc = "call"
    /\ pc' = "returned"
    /\ parsed' = <<splitCsvRespectQuotes(text)>>
    /\ UNCHANGED <<src, text, shown, calls, io, scene, picked, glow, xr>>

CsvNext == SplitCsv

CsvSpec == CsvInit /\ [][CsvNext]_vars

----------------------------------------------------------------------------
(* api/fetch-qdf/route.ts: POST.  src is the request body, text its url,  *)
(* calls the outbound fetches made, parsed the response.                  *)

allowedDomains ==
    <<<<"m", "d", "b", ".", "q", "u", "a", "d", "r", "o", "w", "o", "r", "l", "d", ".", "c", "o", "m">>,
      <<"m", "y", "n", "t", "h", "q", "u", "a", "d", "r", "o", ".", "g", "i", "t", "h", "u", "b", ".", "i", "o">>,
      <<"y", "o", "u", "g", "e", "n", "m", "d", "b", ".", "c", "o", "m">>>>

\* s.includes(p)
Includes(s, p) == \E i \in 1..(Len(s) - Len(p) + 1) : SubSeq(s, i, i + Len(p) - 1) = p

\* the position of the first :// of url, 0 when there is none
SchemeEnd(url) ==
    IF Includes(url, <<":", "/", "/">>)
    THEN CHOOSE i \in 1..Len(url) :
            /\ SubSeq(url, i, i + 2) = <<":", "/", "/">>
            /\ \A j \in 1..(i - 1) : SubSeq(url, j, j + 2) # <<":", "/", "/">>
    ELSE 0

\* the authority: what follows :// up to the next /
authorityOf(rest) ==
    IF IndexOf(rest, "/") = 0 THEN rest ELSE SubSeq(rest, 1, IndexOf(rest, "/") - 1)

\* the host of an authority: behind the last @, before the first :
hostOfAuthority(a) ==
    Split(Drop(a, LastIndexOf(a, "@") + 1), ":")[1]

\* new URL(url).hostname for the lower-case urls of this model: <<>> when the
\* constructor throws (no scheme or no host), else <<hostname>>
hostnameAt(url, k) ==
    IF k <= 1 \/ hostOfAuthority(authorityOf(Drop(url, k + 3))) = <<>> THEN <<>>
    ELSE <<hostOfAuthority(authorityOf(Drop(url, k + 3)))>>

hostnameOf(url) == hostnameAt(url, SchemeEnd(url))

\* allowedDomains.some(domain => urlObj.hostname.includes(domain))
isAllowed(hostname) ==
    \E i \in DOMAIN allowedDomains : Includes(hostname, allowedDomains[i])

\* NextResponse.json(body, { status })
Response(status) == [status |-> status]

\* host names: the allowed ones, each as a subdomain, with a letter before
\* it and as the front part of a foreign name; a foreign name
RouteHosts ==
    UNION {{allowedDomains[i],
            <<"w", "w", "w", ".">> \o allowedDomains[i],
            <<"x">> \o allowedDomains[i],
            allowedDomains[i] \o <<".", "x", ".", "n", "e", "t">>} : i \in DOMAIN allowedDomains}
      \cup {<<"x", ".", "n", "e", "t">>}

RoutePaths == {<<>>, <<"/", "a", ".", "q", "d", "f">>}

\* request bodies: no url, a url without a scheme, urls of each host and
\* path, and an allowed name as the user part in front of a foreign host
RouteRequests ==
    {<<>>}
      \cup {<<h \o p>> : h \in RouteHosts, p \in RoutePaths}
      \cup {<<<<"h", "t", "t", "p", "s", ":", "/", "/">> \o h \o p>> : h \in RouteHosts, p \in RoutePaths}
      \cup {<<<<"h", "t", "t", "p", "s", ":", "/", "/">> \o allowedDomains[i] \o <<"@">> \o <<"x", ".", "n", "e", "t">>>> :
                i \in DOMAIN allowedDomains}

RouteInit ==
    /\ src \in RouteRequests
    /\ text = IF src = <<>> THEN <<>> ELSE src[1]
    /\ pc = "request"
    /\ parsed = <<>>
    /\ NoPage

Responded(status) ==
    /\ pc' = "responded"
    /\ parsed' = <<Response(status)>>

\* POST up to the outbound fetch: 400 without a url, 500 when new URL
\* throws, 403 when no allowed domain is found in the hostname, else
\* fetch(url)
validated(hostname) ==
    IF src = <<>> THEN Responded(400) /\ UNCHANGED calls
    ELSE IF hostname = <<>> THEN Responded(500) /\ UNCHANGED calls
    ELSE IF ~isAllowed(hostname[1]) THEN Responded(403) /\ UNCHANGED calls
    ELSE pc' = "fetching" /\ calls' = Append(calls, text) /\ UNCHANGED parsed

Post ==
    /\ pc = "request"
    /\ validated(hostnameOf(text))
    /\ UNCHANGED <<src, text, shown, io, scene, picked, glow, xr>>

\* the outbound fetch answers ok: { success: true, data: text }
FetchOk ==
    /\ pc = "fetching"
    /\ Responded(200)
    /\ UNCHANGED <<src, text, shown, calls, io, scene, picked, glow, xr>>

\* the outbound fetch answers with a status that is not ok
FetchNotOk ==
    /\ pc = "fetching"
    /\ \E status \in {404, 503} : Responded(status)
    /\ UNCHANGED <<src, text, shown, calls, io, scene, picked, glow, xr>>

\* the outbound fetch throws: the catch answers 500
FetchThrows ==
    /\ pc = "fetching"
    /\ Responded(500)
    /\ UNCHANGED <<src, text, shown, calls, io, scene, picked, glow, xr>>

RouteNext == Post \/ FetchOk \/ FetchNotOk \/ FetchThrows

RouteSpec == RouteInit /\ [][RouteNext]_vars

----------------------------------------------------------------------------
(* The page: QdfSidePanel acquires a file and calls parseQdf, Home hands   *)
(* the model to ThreeCanvas, which renders it and handles clicks.          *)
(*   parsed  the panel's parsedFile state       shown   Home's parsed      *)
(*   calls   the calls of parseQdf made so far  io      the last outcome   *)
(*   scene   the groups the canvas holds        picked  Home's selection   *)

\* the most file acquisitions of a run
MaxCalls == 3

NoDelims == [open |-> <<>>, close |-> <<>>]

ReadErrorShape == Shape("read-error", NoDelims, <<>>, <<>>, <<>>)

NotFoundShape == Shape("not-found", NoDelims, <<>>, <<>>, <<>>)

\* the files a user opens or a template site returns
AppFiles ==
    {<<WellFormed("tube2", MinTubeParams)>>,
     <<WellFormed("material3", MinMaterialFields - 1),
       WellFormed("connector3", MinConnector3Params),
       [WellFormed("tube2", MinTubeParams) EXCEPT !.id = <<"2">>,
                                                  !.params[2] = <<"2", "5", "0">>]>>,
     <<WellFormed("panel2", MinPanelParams),
       [WellFormed("textil2", MinPanelParams) EXCEPT !.id = <<"2">>]>>,
     <<[WellFormed("connector3", MinConnector3Params) EXCEPT !.params[3] = NegativeToken]>>}

\* parseCall that keeps the lists of the call before in module-level arrays
parseCallKeepingLists(t, earlier) ==
    IF earlier = <<>> \/ earlier[Len(earlier)].result.tag # "some"
         \/ parseQdf(t).tag # "some"
    THEN parseQdf(t)
    ELSE Some(parsedFile(t,
                         earlier[Len(earlier)].result.val.materials
                            \o parseQdf(t).val.materials,
                         earlier[Len(earlier)].result.val.geometries
                            \o parseQdf(t).val.geometries))

\* parseQdf(text) called after the calls in earlier: materials and
\* geometries are created inside the call, nothing of an earlier call is read
parseCall(t, earlier) == parseQdf(t)

\* the end of setFileContents: setParsedFile(parsed); onParsed(parsed)
Delivered(shs, outcome, r) ==
    /\ src' = shs
    /\ text' = TextOf(shs)
    /\ io' = outcome
    /\ calls' = Append(calls, [text |-> TextOf(shs), after |-> outcome, result |-> r])
    /\ IF r.tag = "hang"
       THEN pc' = "hung" /\ UNCHANGED <<parsed, shown>>
       ELSE pc' = pc /\ parsed' = <<r.val>> /\ shown' = <<r.val>>
    /\ UNCHANGED <<scene, picked, glow, xr>>

\* setFileContents(text) with the text the shapes shs render
setFileContents(shs, outcome) == Delivered(shs, outcome, parseCall(TextOf(shs), calls))

CanAcquire == pc = "idle" /\ Len(calls) < MaxCalls

\* handleFiles, reader.onload
ReadFile == CanAcquire /\ \E f \in AppFiles : setFileContents(f, "read")

\* handleFiles, reader.onerror
ReadFails == CanAcquire /\ setFileContents(<<ReadErrorShape>>, "read-failed")

\* handleSearchSubmit, a template site answers ok
FetchFound == CanAcquire /\ \E f \in AppFiles : setFileContents(f, "fetched")

\* handleSearchSubmit, no template site answers ok
FetchNotFound == CanAcquire /\ setFileContents(<<NotFoundShape>>, "fetch-failed")

\* Map.get(id) on the map of buildThreeMaterials: map.set keeps the
\* material set last under an id; <<>> for undefined
mapGet(materials, id) ==
    IF \E i \in DOMAIN materials : materials[i].id = id
    THEN <<materials[CHOOSE i \in DOMAIN materials :
                        /\ materials[i].id = id
                        /\ \A j \in (i + 1)..Len(materials) : materials[j].id # id]>>
    ELSE <<>>

\* new THREE.MeshStandardMaterial({ color }) with a literal colour: a
\* material that is in no map
defaultMaterial(color) == [id |-> NaN, color |-> NaN, literal |-> color]

\* materials.get(id) || new THREE.MeshStandardMaterial({ color })
materialOr(found, color) == IF found = <<>> THEN defaultMaterial(color) ELSE found[1]

\* makeTubeMesh: position and quaternion copied from the record, the material
\* looked up under tube.id, the record kept in userData
meshOf(r, materials) ==
    [position |-> r.position, quaternion |-> r.quaternion,
     material |-> materialOr(mapGet(materials, r.id), "0xff8800"),
     userData |-> <<r>>]

meshesOf(rs, materials) == [i \in 1..Len(rs) |-> meshOf(rs[i], materials)]

\* the id and colour of each material
buildThreeMaterials(mats) ==
    [i \in 1..Len(mats) |->
        [id |-> mats[i].id, color |-> mats[i].colorHex, literal |-> ""]]

\* makeSphere: the mesh sits at the raw position of the orientation and
\* copies the quaternion of the record
sphereMesh(r, materials) ==
    [position |-> Vector3(r.orientation.x, r.orientation.y, r.orientation.z),
     quaternion |-> r.quaternion,
     material |-> materialOr(mapGet(materials, r.id), "0xcccccc"),
     userData |-> <<r>>]

\* setFromAxisAngle((0, 0, -1), PI / 2) = (0, 0, -1, 1) / sqrt 2
zRotationBack == [x |-> Num(0), y |-> Num(0), z |-> Num(-1), w |-> Num(1), n |-> Num(2)]

\* makeConnector: the group sits at the raw position; q is a new Quaternion
\* with the components of the record's, so multiply and normalize write q
\* and leave the record's quaternion alone.  The sphere and the arms of the
\* group share one material.
connectorMesh(r, materials) ==
    [position |-> Vector3(r.orientation.x, r.orientation.y, r.orientation.z),
     quaternion |-> normalize(multiply(r.quaternion, zRotationBack)),
     material |-> materialOr(mapGet(materials, r.id), "0xcccccc"),
     userData |-> <<r>>]

renderConnectors(m, materials) ==
    [i \in 1..Len(m.connectors) |-> connectorMesh(m.connectors[i], materials)]
      \o [i \in 1..Len(m.connector45s) |-> sphereMesh(m.connector45s[i], materials)]

renderTubes(m, materials) == meshesOf(m.tubes, materials)

\* a mesh or group without userData, its material looked up under the id of
\* the record
plainMeshes(rs, materials, color) ==
    [i \in 1..Len(rs) |->
        [position |-> rs[i].position, quaternion |-> rs[i].quaternion,
         material |-> materialOr(mapGet(materials, rs[i].id), color),
         userData |-> <<>>]]

renderPanels(m, materials) == plainMeshes(m.panels, materials, "0x22aa33")

renderSlides(m, materials) == plainMeshes(m.slides, materials, "0x999999")

renderSlideEnds(m, materials) == plainMeshes(m.slideEnds, materials, "0x999999")

renderWheels(m, materials) == plainMeshes(m.wheels, materials, "0x666666")

\* parsedFile.textiles.map(t => ({ ...t, kind: "panel2" }))
asPanels(textiles) == [i \in 1..Len(textiles) |-> [textiles[i] EXCEPT !.kind = "panel2"]]

\* an assignment parsedFile.panels = panels in place of the spread
assignPanels(model, panels) ==
    [copy |-> [model EXCEPT !.panels = panels],
     original |-> [model EXCEPT !.panels = panels]]

\* { ...parsedFile, panels }: a new object; parsedFile itself is not written
spreadPanels(model, panels) ==
    [copy |-> [model EXCEPT !.panels = panels], original |-> model]

\* the groups the effect adds to the scene, built from call number n's model
groupsOf(m, textilesParsed, n, materialMap) ==
    [call |-> n,
     materials |-> materialMap,
     connectors |-> renderConnectors(m, materialMap),
     tubes |-> renderTubes(m, materialMap),
     panels |-> renderPanels(m, materialMap),
     textiles |-> renderPanels(textilesParsed, materialMap),
     slides |-> renderSlides(m, materialMap),
     slideEnds |-> renderSlideEnds(m, materialMap),
     wheels |-> renderWheels(m, materialMap)]

sceneOf(m, textilesParsed, n) ==
    groupsOf(m, textilesParsed, n, buildThreeMaterials(m.materials))

\* applyGlowToMesh(m, true): the current material goes into
\* originalMaterials and a clone of it with emissive set becomes the material
applyGlowOn(g, i) ==
    [g EXCEPT !.original[i] = <<g.material[i]>>, !.material[i] = "glow"]

\* applyGlowToMesh(m, false): the entry of originalMaterials, when there is
\* one, becomes the material again and is deleted
applyGlowOff(g, i) ==
    IF g.original[i] = <<>> THEN g
    ELSE [g EXCEPT !.material[i] = g.original[i][1], !.original[i] = <<>>]

\* step 1 of setGlow: the glow of the previous object is turned off when it
\* is another object than mesh
turnOffPrevious(g, mesh) ==
    IF g.current # <<>> /\ g.current # mesh
    THEN [applyGlowOff(g, g.current[1]) EXCEPT !.current = <<>>]
    ELSE g

\* step 3 of setGlow
turnOn(g, i) == [applyGlowOn(g, i) EXCEPT !.current = <<i>>]

\* setGlow(mesh, currentGlowingRef, originalMaterials); mesh is <<>> for null
setGlow(mesh, g) ==
    IF mesh = <<>> THEN [turnOffPrevious(g, mesh) EXCEPT !.current = <<>>]
    ELSE turnOn(turnOffPrevious(g, mesh), mesh[1])

\* setGlow(null) on the old meshes, which are removed; the new groups come
\* with the materials the renderers give them
Placed(objs, groups) ==
    /\ scene' = <<groups>>
    /\ glow' = glowOf(Len(groups.connectors) + Len(groups.tubes))
    /\ shown' = <<objs.original>>
    /\ parsed' = <<objs.original>>

Rendered(objs) == Placed(objs, sceneOf(shown[1], objs.copy, Len(calls)))

\* the effect of ThreeCanvas on a new parsedFile
RenderScene ==
    /\ pc = "idle"
    /\ shown # <<>>
    /\ IF scene = <<>> THEN TRUE ELSE scene[1].call # Len(calls)
    /\ Rendered(spreadPanels(shown[1], asPanels(shown[1].textiles)))
    /\ UNCHANGED <<src, text, pc, calls, io, picked, xr>>

\* the meshes handleClick casts its ray against
Pickable == IF scene = <<>> THEN <<>> ELSE scene[1].connectors \o scene[1].tubes

\* handleClick: a connector or tube is hit and handed to onSelectConnector,
\* or nothing is hit and the selection is cleared
Click ==
    /\ pc = "idle"
    /\ scene # <<>>
    /\ \/ \E i \in 1..Len(Pickable) :
             /\ glow' = setGlow(<<i>>, glow)
             /\ picked' = Pickable[i].userData
       \/ /\ glow' = setGlow(<<>>, glow)
          /\ picked' = <<>>
    /\ UNCHANGED <<src, text, pc, parsed, shown, calls, io, scene, xr>>

AppInit ==
    /\ src = <<>>
    /\ text = TextOf(src)
    /\ pc = "idle"
    /\ parsed = <<>>
    /\ NoPage

AppNext == ReadFile \/ ReadFails \/ FetchFound \/ FetchNotFound \/ RenderScene \/ Click

AppSpec == AppInit /\ [][AppNext]_vars

----------------------------------------------------------------------------
(* The XR handlers of ThreeCanvas.  xr holds what they read and write:     *)
(*   sessions       for each session started so far, where its             *)
(*                  sessionstart handler stands: "space" awaiting          *)
(*                  requestReferenceSpace, "source" awaiting               *)
(*                  requestHitTestSource, "done"                           *)
(*   active         the last session has not ended                         *)
(*   scale, visible mainSceneGroup.scale and .visible                      *)
(*   reticle        reticle.visible                                        *)
(*   modelPlaced    modelPlacedRef.current                                 *)
(*   hitTestSource  hitTestSourceRef.current: <<>> for null, <<k>> for the *)
(*                  source requested by the handler of session k           *)
(*   obtained       the sessions whose source request was fulfilled        *)
(*   cancelled      the sessions whose source cancel() was called on       *)
(*   logged         the sessions whose handler logged an error             *)

MaxSessions == 3

ArInit ==
    /\ src = <<>>
    /\ text = <<>>
    /\ pc = "idle"
    /\ parsed = <<>>
    /\ NoPage

\* the sessionstart listener up to its first await; without
\* session.requestHitTestSource the handler is over at once
SessionStart ==
    /\ ~xr.active
    /\ Len(xr.sessions) < MaxSessions
    /\ \E step \in {"space", "done"} :
          xr' = [xr EXCEPT !.sessions = Append(@, step),
                           !.active = TRUE,
                           !.scale = "1/1000",
                           !.modelPlaced = FALSE,
                           !.visible = FALSE,
                           !.reticle = FALSE]
    /\ UNCHANGED <<src, text, pc, parsed, shown, calls, io, scene, picked, glow>>

\* session k is the running one
Running(k) == xr.active /\ k = Len(xr.sessions)

\* requestReferenceSpace of session k is fulfilled and the handler calls
\* session.requestHitTestSource, which fails at once on an ended session
SpaceResolves ==
    /\ \E k \in DOMAIN xr.sessions :
          /\ xr.sessions[k] = "space"
          /\ xr' = IF Running(k) THEN [xr EXCEPT !.sessions[k] = "source"]
                   ELSE [xr EXCEPT !.sessions[k] = "done", !.logged = @ \cup {k}]
    /\ UNCHANGED <<src, text, pc, parsed, shown, calls, io, scene, picked, glow>>

\* an awaited request of session k is rejected: the catch logs the error
RequestRejects ==
    /\ \E k \in DOMAIN xr.sessions :
          /\ xr.sessions[k] \in {"space", "source"}
          /\ xr' = [xr EXCEPT !.sessions[k] = "done", !.logged = @ \cup {k}]
    /\ UNCHANGED <<src, text, pc, parsed, shown, calls, io, scene, picked, glow>>

\* requestHitTestSource of session k is fulfilled: the handler stores the
\* source, whatever has happened since it was requested
SourceResolves ==
    /\ \E k \in DOMAIN xr.sessions :
          /\ xr.sessions[k] = "source"
          /\ xr' = [xr EXCEPT !.sessions[k] = "done",
                              !.hitTestSource = <<k>>,
                              !.obtained = @ \cup {k}]
    /\ UNCHANGED <<src, text, pc, parsed, shown, calls, io, scene, picked, glow>>

\* the animation loop with an XR frame: the reticle is shown when the hit
\* test has a result with a pose, hidden when it has none
Frame ==
    /\ xr.active
    /\ xr.hitTestSource # <<>>
    /\ ~xr.modelPlaced
    /\ \E hit \in BOOLEAN : xr' = [xr EXCEPT !.reticle = hit]
    /\ UNCHANGED <<src, text, pc, parsed, shown, calls, io, scene, picked, glow>>

\* onSelect of the XR controller
Select ==
    /\ xr.active
    /\ xr.reticle
    /\ ~xr.modelPlaced
    /\ xr' = [xr EXCEPT !.visible = TRUE, !.modelPlaced = TRUE, !.reticle = FALSE]
    /\ UNCHANGED <<src, text, pc, parsed, shown, calls, io, scene, picked, glow>>

\* the sessionend listener
SessionEnd ==
    /\ xr.active
    /\ xr' = [xr EXCEPT !.active = FALSE,
                        !.scale = "1",
                        !.visible = TRUE,
                        !.reticle = FALSE,
                        !.cancelled = @ \cup {xr.hitTestSource[i] : i \in DOMAIN xr.hitTestSource},
                        !.hitTestSource = <<>>,
                        !.modelPlaced = FALSE]
    /\ UNCHANGED <<src, text, pc, parsed, shown, calls, io, scene, picked, glow>>

ArNext ==
    \/ SessionStart \/ SpaceResolves \/ RequestRejects \/ SourceResolves
    \/ Frame \/ Select \/ SessionEnd

ArSpec == ArInit /\ [][ArNext]_vars

----------------------------------------------------------------------------
(* Properties *)

Returned == pc = "returned"

\* every collection of the model m is empty
EmptyModel(m) ==
    /\ m.materials = <<>> /\ m.geometries = <<>>
    /\ m.connectors = <<>> /\ m.connector45s = <<>> /\ m.tubes = <<>>
    /\ m.panels = <<>> /\ m.displayPanels = <<>> /\ m.textiles = <<>>
    /\ m.clamps = <<>> /\ m.slides = <<>> /\ m.slideEnds = <<>>
    /\ m.wheels = <<>>

\* the text is one line of a recognized keyword
OneRecord == Len(src) = 1 /\ src[1].kw \in RecognizedKeywords

OneGeometry == Len(src) = 1 /\ src[1].kw \in GeometryKeywords

C1_Line ==
    <<"c", "o", "n", "n", "e", "c", "t", "o", "r", "3", ",", "1", ",", "{",
      "0", ",", "0", ",", "0", ",", "1", ",", "1", "0", "0", ",", "2", "0",
      "0", ",", "3", "0", "0", "}", ",", "5", ",", "0", ",", "3", ",", "0",
      ",", "0", ",", "0", ";">>

C1_BracedLine ==
    <<"c", "o", "n", "n", "e", "c", "t", "o", "r", "3", "{", "1", ",", "{",
      "0", ",", "0", ",", "0", ",", "1", ",", "1", "0", "0", ",", "2", "0",
      "0", ",", "3", "0", "0", "}", ",", "5", ",", "0", ",", "3", ",", "0",
      ",", "0", ",", "0", "}">>

OneStraightConnector(m) ==
    /\ Len(m.connectors) = 1
    /\ m.geometries = m.connectors
    /\ m.connectors[1].kind = "connector3"
    /\ m.connectors[1].id = Num(1)
    /\ m.connectors[1].position = Vector3(Num(100), Num(200), Num(300))
    /\ m.connectors[1].variant2 = Num(3)
    /\ m.connectors[1].connectorKind = "STRAIGHT_CONNECTOR"

C2_ParseAlwaysReturns == pc # "hung"

\* the line sh with its parameters cut to its keyword's minimum is accepted
AcceptedWithoutExtras(sh) ==
    dispatchLine(Render([sh EXCEPT !.params = SubSeq(@, 1, MinParams(sh.kw))])).res.tag
        = "some"

\* C3 as stated: a record of any recognized kind (material3 included) that
\* would otherwise be accepted is absent from every collection when it has
\* one extra trailing numeric field.
C3_ExtraFieldRejectsAnyKind ==
    (/\ Returned /\ OneRecord
     /\ Len(src[1].params) = MinParams(src[1].kw) + 1
     /\ AcceptedWithoutExtras(src[1]))
        => EmptyModel(parsed[1])

\* C3 amended: a record of any recognized geometry kind that would otherwise
\* be accepted is absent from the flat list and from every per-kind list
\* when it has one extra trailing numeric field, and no record of the model
\* has a visibility-range start; a material3 line with an extra trailing
\* field stays in the material list.
C3_ExtraFieldRejectsGeometry ==
    /\ (/\ Returned /\ OneGeometry
        /\ Len(src[1].params) = MinParams(src[1].kw) + 1
        /\ AcceptedWithoutExtras(src[1]))
          => EmptyModel(parsed[1])
    /\ Returned =>
          \A i \in 1..Len(parsed[1].geometries) :
              parsed[1].geometries[i].renderRangeStart = <<>>
    /\ (/\ Returned /\ Len(src) = 1 /\ src[1].kw = "material3"
        /\ Len(src[1].params) = MinParams("material3") + 1
        /\ AcceptedWithoutExtras(src[1]))
          => Len(parsed[1].materials) = 1

C3_Witness ==
    /\ Returned /\ OneGeometry
    /\ src[1].kw = "multi-wheel2"
    /\ Len(src[1].params) = MinParams(src[1].kw) + 1
    /\ AcceptedWithoutExtras(src[1])
    /\ parsed[1].geometries = <<>>

\* the positions, among the parameters of a keyword, of its required
\* numeric fields (the name of a material3 is not numeric)
NumericParams(sh) ==
    IF sh.kw = "material3"
    THEN {i \in {2, 3, 4, 5, Len(sh.params)} : i >= 1 /\ i <= Len(sh.params)}
    ELSE {i \in 1..MinParams(sh.kw) : i <= Len(sh.params)}

\* the numeric fields of a record of the model
RecordNumbers(r) ==
    CASE r.kind = "material3" ->
            {r.id, r.materialType, r.linearColor.r, r.linearColor.g,
             r.linearColor.b, r.flags}
      [] r.kind = "connector3" ->
            {r.id, r.colorId, r.variant1, r.variant2, r.variant3, r.variant4,
             r.reserved}
      [] r.kind = "connector45_2" -> {r.id, r.connectorType, r.flag1, r.flag2}
      [] r.kind = "tube2" -> {r.id, r.materialId, r.length, r.dim2, r.dim3}
      [] r.kind \in {"panel2", "display2", "textil2"} ->
            {r.id, r.materialId, r.dim1, r.dim2, r.dim3, r.offset1, r.offset2}
      [] OTHER -> {r.id, r.materialId, r.flag}

\* C4: a record with a required numeric field that fails to parse as a
\* number is rejected, and no record of the model holds a not-a-number
\* value in a required numeric field.
C4_NonNumericFieldRejects ==
    /\ (/\ Returned /\ OneRecord
        /\ \E i \in NumericParams(src[1]) : IsNaN(parseFloat(src[1].params[i])))
          => EmptyModel(parsed[1])
    /\ Returned =>
          /\ \A i \in 1..Len(parsed[1].geometries) :
                \A v \in RecordNumbers(parsed[1].geometries[i]) : ~IsNaN(v)
          /\ \A i \in 1..Len(parsed[1].materials) :
                \A v \in RecordNumbers(parsed[1].materials[i]) : ~IsNaN(v)

\* C5: a geometry record whose orientation block has fewer or more than 7
\* comma-separated fields, or a field that is not a number, is rejected.
C5_OrientationExactlySeven ==
    (/\ Returned /\ OneGeometry
     /\ src[1].ori # <<>>
     /\ \/ Len(src[1].ori[1]) # 7
        \/ \E i \in 1..Len(src[1].ori[1]) : IsNaN(parseFloat(src[1].ori[1][i])))
        => EmptyModel(parsed[1])

\* C6: a geometry record whose id token does not parse as an integer is
\* rejected, and every geometry record of the model has an integer id.
C6_IdIsInteger ==
    /\ (Returned /\ OneGeometry /\ IsNaN(parseInt(src[1].id)))
          => EmptyModel(parsed[1])
    /\ Returned =>
          \A i \in 1..Len(parsed[1].geometries) :
              IsInteger(parsed[1].geometries[i].id)

C6_Witness ==
    /\ Returned /\ OneGeometry
    /\ src[1] = [WellFormed("clamp2", 2) EXCEPT !.id = BadToken]
    /\ parsed[1].geometries = <<>>

\* the minimum parameter counts as the claim states them (for material3,
\* 16 fields of which the first is the id)
C7_Minimum(k) ==
    CASE k = "connector3" -> 6
      [] k = "connector45_2" -> 3
      [] k = "tube2" -> 4
      [] k \in {"panel2", "display2", "textil2"} -> 6
      [] k \in {"clamp2", "slide2", "slide-new2", "slide-end2", "multi-wheel2"} -> 2
      [] k = "material3" -> 16 - 1

\* C7: a record with fewer trailing parameters than its kind's minimum
\* (6 connector3, 3 connector45_2, 4 tube2, 6 panel2/display2/textil2,
\* 2 clamp2/slide2/slide-new2/slide-end2/multi-wheel2, 16 fields material3)
\* is rejected.
C7_TooFewParamsRejects ==
    (Returned /\ OneRecord /\ Len(src[1].params) < C7_Minimum(src[1].kw))
        => EmptyModel(parsed[1])

C7_Witness ==
    /\ Returned
    /\ src = <<WellFormed("tube2", 3)>>
    /\ parsed[1].geometries = <<>>

\* the outer delimiters with a brace missing or in surplus
UnbalancedStyles ==
    {[open |-> <<>>, close |-> <<"}">>],
     [open |-> <<"{">>, close |-> <<>>],
     [open |-> <<"{", "{">>, close |-> <<"}">>],
     [open |-> <<"{">>, close |-> <<"}", "}">>]}

\* C8: a record line whose outer braces are unbalanced (an outer brace
\* missing or in surplus) is rejected and contributes nothing to the model.
C8_UnbalancedBracesReject ==
    (Returned /\ OneRecord /\ src[1].style \in UnbalancedStyles)
        => EmptyModel(parsed[1])

\* what parseQdf's loop body makes of each source line, taken alone
LineResults == [i \in 1..Len(src) |-> dispatchLine(Render(src[i]))]

\* the source lines whose record is accepted onto the given list
AcceptedLines(d, list) ==
    {i \in 1..Len(src) : d[i].list = list /\ d[i].res.tag = "some"}

KindLines(d, tag) ==
    {i \in AcceptedLines(d, "geometries") : d[i].res.val.kind = tag}

\* the j-th smallest element of the set of line numbers A
NthOf(A, j) == CHOOSE i \in A : Cardinality({k \in A : k < i}) = j - 1

\* the sequence out holds exactly the records of the lines A, in line order
InSourceOrder(out, d, A) ==
    /\ Len(out) = Cardinality(A)
    /\ \A j \in 1..Len(out) : out[j] = d[NthOf(A, j)].res.val

\* C9: in the flat list, in every per-kind list and in the material list,
\* records appear in the order of their source lines, and records with
\* duplicate ids are all kept: n accepted lines yield n records.
C9_SourceOrderKept ==
    Returned =>
        LET d == LineResults
            m == parsed[1]
        IN  /\ InSourceOrder(m.materials, d, AcceptedLines(d, "materials"))
            /\ InSourceOrder(m.geometries, d, AcceptedLines(d, "geometries"))
            /\ InSourceOrder(m.connectors, d, KindLines(d, "connector3"))
            /\ InSourceOrder(m.connector45s, d, KindLines(d, "connector45_2"))
            /\ InSourceOrder(m.tubes, d, KindLines(d, "tube2"))
            /\ InSourceOrder(m.panels, d, KindLines(d, "panel2"))
            /\ InSourceOrder(m.displayPanels, d, KindLines(d, "display2"))
            /\ InSourceOrder(m.textiles, d, KindLines(d, "textil2"))
            /\ InSourceOrder(m.clamps, d, KindLines(d, "clamp2"))
            /\ InSourceOrder(m.slides, d, KindLines(d, "slide2"))
            /\ InSourceOrder(m.slideEnds, d, KindLines(d, "slide-end2"))
            /\ InSourceOrder(m.wheels, d, KindLines(d, "multi-wheel2"))

\* three accepted lines with the same id, not all alike
C9_Witness ==
    /\ Returned
    /\ Len(src) = 3
    /\ Len(parsed[1].geometries) = 3
    /\ \A i \in 1..3 : parsed[1].geometries[i].id = Num(1)
    /\ parsed[1].geometries[1] # parsed[1].geometries[2]
    /\ parsed[1].geometries[1] = parsed[1].geometries[3]

KindTags ==
    {"connector3", "connector45_2", "tube2", "panel2", "display2", "textil2",
     "clamp2", "slide2", "slide-end2", "multi-wheel2"}

WithTag(gs, tag) == SelectSeq(gs, LAMBDA g : g.kind = tag)

\* C10: each per-kind list is exactly the subsequence of the flat list with
\* that kind tag, every record of the flat list has one of the kind tags,
\* and the lengths of the per-kind lists sum to the length of the flat list.
C10_PerKindPartition ==
    Returned =>
        LET m == parsed[1]
        IN  /\ \A i \in 1..Len(m.geometries) : m.geometries[i].kind \in KindTags
            /\ m.connectors = WithTag(m.geometries, "connector3")
            /\ m.connector45s = WithTag(m.geometries, "connector45_2")
            /\ m.tubes = WithTag(m.geometries, "tube2")
            /\ m.panels = WithTag(m.geometries, "panel2")
            /\ m.displayPanels = WithTag(m.geometries, "display2")
            /\ m.textiles = WithTag(m.geometries, "textil2")
            /\ m.clamps = WithTag(m.geometries, "clamp2")
            /\ m.slides = WithTag(m.geometries, "slide2")
            /\ m.slideEnds = WithTag(m.geometries, "slide-end2")
            /\ m.wheels = WithTag(m.geometries, "multi-wheel2")
            /\ Len(m.geometries) =
                  Len(m.connectors) + Len(m.connector45s) + Len(m.tubes)
                    + Len(m.panels) + Len(m.displayPanels) + Len(m.textiles)
                    + Len(m.clamps) + Len(m.slides) + Len(m.slideEnds)
                    + Len(m.wheels)

\* a flat list of three records of which two are tubes
C10_Witness ==
    /\ Returned
    /\ Len(parsed[1].geometries) = 3
    /\ Len(parsed[1].tubes) = 2
    /\ Len(parsed[1].slides) = 1

----------------------------------------------------------------------------
(* Connection masks *)

\* the number of direction bits set in a six-bit mask
PopCount(m) ==
    (m % 2) + ((m \div 2) % 2) + ((m \div 4) % 2) + ((m \div 8) % 2)
      + ((m \div 16) % 2) + ((m \div 32) % 2)

\* the two bits of axis k (0 for X, 1 for Y, 2 for Z) as a number 0..3
AxisPair(m, k) == (m \div (IF k = 0 THEN 1 ELSE IF k = 1 THEN 4 ELSE 16)) % 4

Axes == {0, 1, 2}

\* the category the classification rule gives a six-bit mask
ExpectedCategory(m) ==
    CASE PopCount(m) \in {0, 1} -> "INVALID"
      [] PopCount(m) = 2 ->
            IF \E k \in Axes : AxisPair(m, k) = 3
            THEN "STRAIGHT_CONNECTOR" ELSE "L_CONNECTOR"
      [] PopCount(m) = 3 ->
            IF \A k \in Axes : AxisPair(m, k) \in {1, 2}
            THEN "CORNER_CONNECTOR" ELSE "T_CONNECTOR"
      [] PopCount(m) = 4 ->
            IF Cardinality({k \in Axes : AxisPair(m, k) = 0}) = 1
            THEN "CROSS_CONNECTOR" ELSE "FOUR_WAY_CONNECTOR"
      [] PopCount(m) = 5 -> "FIVE_WAY_CONNECTOR"
      [] PopCount(m) = 6 -> "HUB_CONNECTOR"

\* how many masks getConnectorCategory puts in a category
MasksOfCategory(c) ==
    Cardinality({m \in ConnectorMasks : getConnectorCategory(Num(m)).kind = c})

\* the text is one well-formed connector3 line carrying a six-bit mask
OneMaskLine == Len(src) = 1 /\ src[1] \in MaskShapes

MaskOfLine == parseInt(src[1].params[3]).num

\* C11: a connector3 line whose connectorType is the six-bit mask m is decoded
\* into one connector whose topology kind is the category the rule gives m
\* (INVALID for 0 or 1 bits, STRAIGHT or L for 2, CORNER or T for 3, CROSS or
\* FOUR_WAY for 4, FIVE_WAY for 5, HUB for 6), and the 64 masks split 7
\* INVALID, 3 STRAIGHT, 12 L, 8 CORNER, 12 T, 3 CROSS, 12 FOUR_WAY, 6
\* FIVE_WAY, 1 HUB.
C11_CategoryOfEveryMask ==
    (Returned /\ OneMaskLine) =>
        /\ Len(parsed[1].connectors) = 1
        /\ parsed[1].connectors[1].variant2 = Num(MaskOfLine)
        /\ parsed[1].connectors[1].connectorKind = ExpectedCategory(MaskOfLine)
        /\ getConnectorCategory(Num(MaskOfLine)).kind = ExpectedCategory(MaskOfLine)
        /\ MasksOfCategory("INVALID") = 7
        /\ MasksOfCategory("STRAIGHT_CONNECTOR") = 3
        /\ MasksOfCategory("L_CONNECTOR") = 12
        /\ MasksOfCategory("CORNER_CONNECTOR") = 8
        /\ MasksOfCategory("T_CONNECTOR") = 12
        /\ MasksOfCategory("CROSS_CONNECTOR") = 3
        /\ MasksOfCategory("FOUR_WAY_CONNECTOR") = 12
        /\ MasksOfCategory("FIVE_WAY_CONNECTOR") = 6
        /\ MasksOfCategory("HUB_CONNECTOR") = 1

\* a T connector (two bits on X, one on Y) has been decoded
C11_Witness ==
    /\ Returned /\ OneMaskLine /\ MaskOfLine = 7
    /\ Len(parsed[1].connectors) = 1
    /\ parsed[1].connectors[1].connectorKind = "T_CONNECTOR"

----------------------------------------------------------------------------
(* Lines that are not records *)

\* keywords parseQdf does not list
UnknownKeywords == {"camera2", "tube2x"}

\* C12: a single line whose leading keyword is not a recognized keyword
\* leaves every collection of the model empty, even when the rest of the
\* line has the shape of a valid record.
C12_UnknownKeywordIgnored ==
    (Returned /\ Len(src) = 1 /\ src[1].kw \in UnknownKeywords)
        => EmptyModel(parsed[1])

\* the lines of the text that are not blank, header or comment lines
RecordLines == SelectSeq(src, LAMBDA sh : sh.kw \notin SkipKinds)

\* the collections of two models are equal
SameCollections(m1, m2) == [m1 EXCEPT !.rawText = <<>>] = [m2 EXCEPT !.rawText = <<>>]

SkippedLinesLeaveNoTrace(r) == r.tag = "some" /\ SameCollections(parsed[1], r.val)

\* C13: blank lines, header lines and comment lines contribute nothing,
\* wherever they occur and even when the rest of the line is a valid record:
\* the collections are those of the text without these lines.
C13_SkippedLinesContributeNothing ==
    Returned => SkippedLinesLeaveNoTrace(parseQdf(TextOf(RecordLines)))

\* a comment line that holds a valid record has been skipped next to a record
C13_Witness ==
    /\ Returned /\ Len(src) = 2
    /\ src[1].kw = "comment-slash" /\ src[2].kw = "tube2"
    /\ Len(parsed[1].tubes) = 1 /\ Len(parsed[1].geometries) = 1

----------------------------------------------------------------------------
(* Lines are decoded one by one *)

\* the record line i of the text yields when it is the whole text
AloneResult(i) == dispatchLine(Render(src[i]))

\* the record of line i is in the list its line is pushed on
DecodedInText(i, d) ==
    /\ Returned
    /\ \E j \in 1..Len(IF d.list = "materials" THEN parsed[1].materials
                        ELSE parsed[1].geometries) :
          (IF d.list = "materials" THEN parsed[1].materials
           ELSE parsed[1].geometries)[j] = d.res.val

LineDecodedAsAlone(d, i) == d.res.tag = "some" => DecodedInText(i, d)

\* C15: once the call on a text is over, every line that yields a record when
\* it is the whole text has yielded that record in the text too: no other
\* line, rejected or malformed, changes whether or how it is decoded.
C15_OtherLinesNeverInterfere ==
    pc # "call" => \A i \in 1..Len(src) : LineDecodedAsAlone(AloneResult(i), i)

----------------------------------------------------------------------------
(* material3 *)

OneMaterialLine == Len(src) = 1 /\ src[1].kw = "material3" /\ src[1] \in MaterialShapes

\* field 1 without its surrounding double quotes
Unquoted(field) ==
    IF Len(field) >= 2 /\ Head(field) = "\"" /\ field[Len(field)] = "\""
    THEN SubSeq(field, 2, Len(field) - 1) ELSE field

\* round(255 * c) for c the channel value clamped to [0, 1]; 0 for a
\* non-number, as the shifts of (R<<16)|(G<<8)|B read it
ChannelByte(v) ==
    IF v.nan \/ v.num <= 0 THEN 0
    ELSE IF v.num >= v.den THEN 255
    ELSE (2 * 255 * v.num + v.den) \div (2 * v.den)

ExpectedColorHex(p) ==
    65536 * ChannelByte(parseFloat(p[3])) + 256 * ChannelByte(parseFloat(p[4]))
      + ChannelByte(parseFloat(p[5]))

\* C16: an accepted material3 line yields a material whose name is field 1
\* without its surrounding double quotes and whose colorHex is the byte-packed
\* RGB of fields 3..5, each clamped to [0, 1], times 255, rounded; colorHex
\* lies in 0..0xFFFFFF.
C16_MaterialNameAndColor ==
    (Returned /\ OneMaterialLine) =>
        /\ Len(parsed[1].materials) = 1
        /\ parsed[1].materials[1].name = Unquoted(src[1].params[1])
        /\ parsed[1].materials[1].colorHex = Num(ExpectedColorHex(src[1].params))
        /\ parsed[1].materials[1].colorHex.num \in 0..16777215

\* a material with a channel above 1, a channel that rounds up and a quoted name
C16_Witness ==
    /\ Returned /\ OneMaterialLine
    /\ src[1].params[3] = <<"2">> /\ src[1].params[4] = <<"0", ".", "5">>
    /\ src[1].params[5] = <<"0">>
    /\ Len(parsed[1].materials) = 1
    /\ parsed[1].materials[1].name = <<"R", "e", "d">>
    /\ parsed[1].materials[1].colorHex = Num(255 * 65536 + 128 * 256)

----------------------------------------------------------------------------
(* slide-new2 *)

\* the collections of the text with every slide-new2 keyword written slide2
AsSlide2 == [i \in 1..Len(src) |->
                IF src[i].kw = "slide-new2" THEN [src[i] EXCEPT !.kw = "slide2"] ELSE src[i]]

HasSlideNew == \E i \in 1..Len(src) : src[i].kw = "slide-new2"

SameAsWrittenSlide2(r) == r.tag = "some" /\ SameCollections(parsed[1], r.val)

\* C20: a slide-new2 line is decoded as the same line with keyword slide2:
\* same acceptance, kind tag slide2, appended to the slides list and to the
\* flat list.
C20_SlideNewIsSlide ==
    (Returned /\ HasSlideNew) =>
        /\ SameAsWrittenSlide2(parseQdf(TextOf(AsSlide2)))
        /\ \A i \in 1..Len(parsed[1].slides) : parsed[1].slides[i].kind = "slide2"
        /\ Len(parsed[1].slides)
             = Cardinality({i \in 1..Len(parsed[1].geometries) :
                              parsed[1].geometries[i].kind = "slide2"})

\* an accepted slide-new2 line
C20_Witness ==
    /\ Returned /\ Len(src) = 1 /\ src[1].kw = "slide-new2"
    /\ Len(parsed[1].slides) = 1 /\ Len(parsed[1].geometries) = 1
    /\ parsed[1].slides[1].kind = "slide2"

----------------------------------------------------------------------------
(* Positions *)

\* the raw (x, y, z) of a record's orientation block
RawPosition(r) == Vector3(r.orientation.x, r.orientation.y, r.orientation.z)

\* the vector (0, -h, 0) turned by the rotation matrix of the unit quaternion
\* (x, y, z, w) / sqrt(n): -h times the second column of the matrix
TurnedDown(q, h) ==
    Vector3(Neg(Mul(h, Div(Mul(Num(2), Sub(Mul(q.x, q.y), Mul(q.w, q.z))), q.n))),
            Neg(Mul(h, Sub(Num(1), Div(Mul(Num(2), Add(Mul(q.x, q.x), Mul(q.z, q.z))), q.n)))),
            Neg(Mul(h, Div(Mul(Num(2), Add(Mul(q.y, q.z), Mul(q.w, q.x))), q.n))))

\* the square of the distance between two points
SquaredDistance(u, v) ==
    Add(Add(Mul(Sub(u.x, v.x), Sub(u.x, v.x)), Mul(Sub(u.y, v.y), Sub(u.y, v.y))),
        Mul(Sub(u.z, v.z), Sub(u.z, v.z)))

IsUnit(q) == squaredLength(q) = q.n

PositionAsClaimed(r) ==
    IF r.kind # "tube2" THEN r.position = RawPosition(r)
    ELSE /\ IsUnit(r.quaternion)
         /\ r.position = addVectors(RawPosition(r), TurnedDown(r.quaternion, Half(r.length)))
         /\ ~IsNaN(r.length) =>
               SquaredDistance(r.position, RawPosition(r))
                  = Mul(Half(r.length), Half(r.length))
         /\ r.length = Num(0) => r.position = RawPosition(r)

C17_FailedAcquisitionSkipsParse ==
    \A i \in DOMAIN calls : calls[i].after \in {"read", "fetched"}

\* the calls of parseQdf that returned a model
ReturnedCalls == {i \in DOMAIN calls : calls[i].result.tag = "some"}

\* the model of the latest call that returned
LatestModel == calls[CHOOSE i \in ReturnedCalls : \A j \in ReturnedCalls : j <= i].result.val

\* the elements of a list
Range(list) == {list[i] : i \in DOMAIN list}

\* the records a click can select in model m
Selectable(m) == Range(m.connectors) \cup Range(m.connector45s) \cup Range(m.tubes)

\* the scene is the one the effect builds from the model as call n returned it
SceneOfReturned(n) ==
    /\ n \in ReturnedCalls
    /\ scene[1] = sceneOf(calls[n].result.val,
                          spreadPanels(calls[n].result.val,
                                       asPanels(calls[n].result.val.textiles)).copy,
                          n)

\* C18: after parseQdf has returned a model no later operation changes it:
\* the model the page and the canvas hold is the latest returned model as it
\* was returned, the scene and the selection carry records of a model as it
\* was returned, through every render, click and later parse
C18_ModelKeptAsReturned ==
    /\ parsed = shown
    /\ (shown = <<>>) = (ReturnedCalls = {})
    /\ shown # <<>> => shown[1] = LatestModel
    /\ scene # <<>> => SceneOfReturned(scene[1].call)
    /\ picked # <<>> =>
          \E n \in ReturnedCalls : picked[1] \in Selectable(calls[n].result.val)

\* a model with a panel and a textile has been rendered, a later parse has
\* replaced it, and a record of the earlier model is still selected
C18_Witness ==
    /\ Len(calls) >= 2
    /\ scene # <<>>
    /\ scene[1].call = 2
    /\ scene[1].textiles # <<>>
    /\ scene[1].panels # <<>>
    /\ picked # <<>>
    /\ picked[1] \notin Selectable(shown[1])

\* ---- properties of the decoded quaternion ----

\* C21: for every orientation block the decoder accepts, the quaternion
\* stored in the record has norm 1
C21_QuaternionHasNormOne ==
    Returned =>
        \A i \in 1..Len(parsed[1].geometries) : IsUnit(parsed[1].geometries[i].quaternion)

\* C22: reverseSquaredScaling is the inverse of forwardSquaredScaling(v) =
\* sign(v) * v^2: reverseSquaredScaling(forwardSquaredScaling(v)) = v for
\* every integer v, 0 and the negative ones included
C22_ReverseUndoesForward == Returned => parsed[1] = src

\* a negative value has been scaled and reversed
C22_Witness ==
    /\ Returned
    /\ src = Num(-7)
    /\ text = Num(-49)
    /\ parsed = <<Num(-7)>>

\* ---- properties of the tokenizing functions ----

\* the number of positions a..b of s that hold ch
CountOf(s, ch, a, b) == Cardinality({i \in a..b : s[i] = ch})

\* the nesting depth after position i, counted from position start
DepthFrom(s, start, i) == CountOf(s, "{", start, i) - CountOf(s, "}", start, i)

\* the positions from the first { on at which the depth is back at 0
ClosingPositions(s) ==
    IF IndexOf(s, "{") = 0 THEN {}
    ELSE {i \in IndexOf(s, "{")..Len(s) : DepthFrom(s, IndexOf(s, "{"), i) = 0}

FirstClosing(s) == CHOOSE i \in ClosingPositions(s) : \A j \in ClosingPositions(s) : i <= j

\* the block of result r is the first top-level block of s
IsFirstBlock(s, r, b) ==
    /\ r.before \o b \o r.after = s
    /\ \A i \in DOMAIN r.before : r.before[i] # "{"
    /\ Len(r.before) + 1 = IndexOf(s, "{")
    /\ Len(r.before) + Len(b) = FirstClosing(s)
    /\ b[1] = "{" /\ b[Len(b)] = "}"
    /\ DepthFrom(b, 1, Len(b)) = 0
    /\ \A i \in 1..(Len(b) - 1) : DepthFrom(b, 1, i) > 0
    /\ r.after = Drop(s, FirstClosing(s) + 1)

BlockAsClaimed(s, r) ==
    /\ (r.block # <<>>) = (ClosingPositions(s) # {})
    /\ r.block # <<>> => IsFirstBlock(s, r, r.block[1])
    /\ r.block = <<>> => headOfParts(r, 0) = <<>>

\* C23: extractInnerBraceBlock(s) returns a block exactly when s has a {
\* whose depth, counted from the first {, returns to 0; then before + block +
\* after = s, before has no {, the block starts at the first {, ends at the
\* first } that brings the depth back to 0 and is balanced, and after is the
\* unparsed rest; otherwise there is no block and the caller rejects
C23_FirstTopLevelBlock == Returned => BlockAsClaimed(src, parsed[1])

\* a nested block with text before it and a further block after it
C23_Witness ==
    /\ Returned
    /\ src = <<"a", "{", "{", "}", "}">> \/ src = <<"{", "}", "{", "}">>
    /\ parsed[1].block # <<>>
    /\ Len(parsed[1].block[1]) \in {2, 4}

\* the commas of s with an even number of quote characters before them
OuterCommas(s) ==
    {i \in 1..Len(s) : s[i] = "," /\ CountOf(s, "\"", 1, i - 1) % 2 = 0}

\* the j-th border of the pieces of s: 0, the outer commas in order, Len + 1
BorderOf(s, j) ==
    IF j = 0 THEN 0
    ELSE IF j > Cardinality(OuterCommas(s)) THEN Len(s) + 1
    ELSE CHOOSE i \in OuterCommas(s) :
            Cardinality({k \in OuterCommas(s) : k < i}) = j - 1

\* the text between two consecutive borders
PieceOf(s, j) == SubSeq(s, BorderOf(s, j - 1) + 1, BorderOf(s, j) - 1)

NoBlankEnds(t) == t = <<>> \/ (t[1] \notin WhiteSpace /\ t[Len(t)] \notin WhiteSpace)

\* tokens are the pieces of s between outer commas, trimmed, quote characters
\* kept, the last one absent when it is empty
TokensAsClaimed(s, tokens, n) ==
    /\ Len(tokens) = IF Trim(PieceOf(s, n + 1)) = <<>> THEN n ELSE n + 1
    /\ \A j \in 1..Len(tokens) :
          /\ tokens[j] = Trim(PieceOf(s, j))
          /\ NoBlankEnds(tokens[j])
          /\ CountOf(tokens[j], "\"", 1, Len(tokens[j]))
                = CountOf(PieceOf(s, j), "\"", 1, Len(PieceOf(s, j)))

\* C24: splitCsvRespectQuotes splits at exactly the commas outside
\* double-quoted spans; quote characters stay in the token, every token is
\* trimmed, an empty final token is dropped and empty tokens that are not
\* last are kept
C24_SplitAtOuterCommas ==
    Returned => TokensAsClaimed(src, parsed[1], Cardinality(OuterCommas(src)))

\* a comma inside quotes stays in its token and the empty token after the
\* outer comma is dropped; an empty token between two commas is kept
C24_Witness ==
    /\ Returned
    /\ \/ src = <<"\"", ",", "\"", ",">> /\ parsed[1] = <<(<<"\"", ",", "\"">>)>>
       \/ src = <<"a", ",", ",", "a">> /\ parsed[1] = <<(<<"a">>), <<>>, <<"a">>>>

\* ---- properties of the keyword dispatch and the classification ----

\* the lines of the text that are not blank
NonBlankLines(lines) == {i \in 1..Len(lines) : Trim(lines[i]) # <<>>}

\* C29: every line is handed to at most one decoder and contributes at most
\* one record: materials plus flat geometries never exceed the number of
\* non-blank lines; and a line that begins with a recognized keyword
\* followed by further characters (tube2x{...}) is decoded as that keyword's
\* kind
C29_AtMostOneRecordPerLine ==
    Returned =>
        /\ Len(parsed[1].materials) + Len(parsed[1].geometries)
              <= Cardinality(NonBlankLines(SplitLines(text)))
        /\ (Len(src) = 1 /\ src[1] \in PrefixedShapes) =>
              /\ Len(parsed[1].geometries) = 1
              /\ Len(parsed[1].tubes) = 1
              /\ parsed[1].tubes[1].kind = "tube2"

\* the line tube2x{...} has been decoded into one tube
C29_Witness ==
    /\ Returned /\ Len(src) = 1 /\ src[1].kw = "tube2x"
    /\ Len(parsed[1].tubes) = 1
    /\ Len(parsed[1].materials) + Len(parsed[1].geometries) = 1

\* the number of bits set in m >= 0
RECURSIVE BitsSet(_)
BitsSet(m) == IF m = 0 THEN 0 ELSE (m % 2) + BitsSet(m \div 2)

\* the text is one well-formed connector3 line with a connectorType above 63
OneWideMaskLine == Len(src) = 1 /\ src[1] \in WideMaskShapes

C27_FetchOnlyAllowedHosts ==
    /\ calls # <<>> => hostnameOf(text)[1] \in Range(allowedDomains)
    /\ (pc = "responded" /\ hostnameOf(text) # <<>>
           /\ hostnameOf(text)[1] \notin Range(allowedDomains)) =>
          (parsed[1].status = 403 /\ calls = <<>>)

\* ---- properties of the canvas ----

\* C25: a mesh carries a glow material only if it belongs to the currently
\* selected object, and originalMaterials maps a mesh only to its original,
\* non-glow material; so with no object selected every mesh has its
\* original material
C25_GlowOnlyOnSelected ==
    \A i \in DOMAIN glow.material :
        /\ glow.material[i] = "glow" => glow.current = <<i>>
        /\ glow.original[i] # <<>> => glow.original[i][1] = "original"

\* each mesh of meshes has the material its record of rs refers to by
\* materialId, or the default of colour color when no material has that id
ByMaterialId(meshes, rs, color) ==
    /\ Len(meshes) = Len(rs)
    /\ \A i \in 1..Len(rs) :
          meshes[i].material
              = materialOr(mapGet(scene[1].materials, rs[i].materialId), color)

MaterialsByReference(m) ==
    /\ ByMaterialId(scene[1].tubes, m.tubes, "0xff8800")
    /\ ByMaterialId(scene[1].panels, m.panels, "0x22aa33")
    /\ ByMaterialId(scene[1].slides, m.slides, "0x999999")
    /\ ByMaterialId(scene[1].slideEnds, m.slideEnds, "0x999999")
    /\ ByMaterialId(scene[1].wheels, m.wheels, "0x666666")

\* C28: every rendered tube, panel, slide, slide end and wheel has the
\* material its record's materialId names in the map built from the model's
\* materials, and the default material when no material has that id
C28_MaterialByMaterialId ==
    scene # <<>> => MaterialsByReference(calls[scene[1].call].result.val)

\* a session has ended and none is running
SessionOver == xr.sessions # <<>> /\ ~xr.active

\* C26: after an AR session has ended the hit-test source reference is
\* null, every source obtained has been cancelled, the main scene group is
\* at scale 1 and visible, the reticle is hidden and modelPlaced is false
C26_EndedSessionCleanedUp ==
    SessionOver =>
        /\ xr.hitTestSource = <<>>
        /\ xr.obtained \subseteq xr.cancelled
        /\ xr.scale = "1"
        /\ xr.visible
        /\ ~xr.reticle
        /\ ~xr.modelPlaced

====
